---- MODULE Spec2Model ----
(***************************************************************************)
(* A model of Cubane's resource resolution pipeline: the asset loader      *)
(* (archives, priority order, caches), the parent-chain model merger, the  *)
(* texture reference resolver, the two copies of the block-state model     *)
(* resolver, and the block mesh cache of the Cubane facade.                *)
(***************************************************************************)
EXTENDS Integers, Sequences, FiniteSets, TLC

VARIABLES
    resourcePacks,      \* AssetLoader.resourcePacks: packId -> zip
    resourcePackOrder,  \* AssetLoader.resourcePackOrder: packIds, front first
    now,                \* the value Date.now() returns
    stringCache,        \* AssetLoader.stringCache
    blockStateCache,    \* AssetLoader.blockStateCache
    modelCache,         \* AssetLoader.modelCache
    textureCache,       \* AssetLoader.textureCache
    materialCache,      \* AssetLoader.materialCache
    blockMeshCache,     \* Cubane.blockMeshCache
    entityMeshCache,    \* Cubane.entityMeshCache
    packCache,          \* the "resourcePacks" store of the browser's database:
                        \* packId -> blob and timestamp
    loaded,             \* history: the zips of the successful loads, latest first
    call,               \* the operation that completed last, with its arguments
    ret,                \* what that operation returned
    merge,              \* the local variables of a running loadAndMergeModel,
                        \* or of a getBlockMesh that is suspended
    modelResolver       \* which ModelResolver the build links: "types" or "EntityRenderer"

vars == << resourcePacks, resourcePackOrder, now, stringCache, blockStateCache,
           modelCache, textureCache, materialCache, blockMeshCache,
           entityMeshCache, packCache, loaded, call, ret, merge,
           modelResolver >>

\* What no lookup changes.
loaderVars == << resourcePacks, resourcePackOrder, now, loaded, modelResolver,
                packCache >>
cacheVars == << stringCache, blockStateCache, modelCache, textureCache,
                materialCache, blockMeshCache, entityMeshCache >>

-----------------------------------------------------------------------------
(* Bounds of the model.                                                    *)

MaxProps == 2       \* properties a block identifier carries
MaxVariants == 2    \* entries of a `variants` object
MaxParts == 2       \* entries of a `multipart` array
MaxLinks == 5       \* "#" entries in a row in a textures map
MaxParents == 6     \* models above the child in a parent chain
MaxLoads == 2       \* archives in the priority list
MaxClock == 1       \* the last millisecond of the clock
MaxLevel == 9       \* the highest level of a liquid's model path
MaxElements == 3    \* elements of a model
MaxRotations == 4   \* rotations applied to the corners of one face
MaxRequests == 2    \* requests in flight together

-----------------------------------------------------------------------------
(* JavaScript values.                                                      *)

\* A partial map (a Map, or an object used as one) is a function on its keys.
EmptyMap == << >>
Has(m, k) == k \in DOMAIN m
Put(m, k, v) == [x \in (DOMAIN m) \cup {k} |-> IF x = k THEN v ELSE m[x]]

\* The text of a file: well-formed JSON of a value, or text JSON.parse rejects.
Json(v) == [json |-> TRUE, value |-> v]
Garbage == [json |-> FALSE, value |-> "}{"]
NoFile == [json |-> FALSE, value |-> "<no such file>"]
isNoFile(text) == ~text.json /\ text.value = NoFile.value

\* JSON.parse: the value, or a SyntaxError.
JSONparse(text) ==
    IF text.json THEN [status |-> "ok", value |-> text.value]
    ELSE [status |-> "raise", value |-> "SyntaxError"]

Undefined == [def |-> FALSE]

\* A BlockStateModelHolder as written in a block-state file.
Holder(m, xr, yr, uv, w) ==
    [def |-> TRUE, model |-> m, x |-> xr, y |-> yr, uvlock |-> uv, weight |-> w]

Single(h) == [kind |-> "holder", holder |-> h, items |-> << >>]
Array(hs) == [kind |-> "array", holder |-> Undefined, items |-> hs]

\* Array.isArray(v) ? v[0] : v   (v[0] of an empty array is undefined)
IsArray(v) == v.kind = "array"
First(v) == IF v.items = << >> THEN Undefined ELSE v.items[1]

Raise == [status |-> "raise", models |-> << >>]
Ok(ms) == [status |-> "ok", models |-> ms]

DefaultCube == [model |-> "block/cube", x |-> "undefined", y |-> "undefined",
                uvlock |-> "undefined"]

-----------------------------------------------------------------------------
(* Strings "key=value", their order under Array.prototype.sort and join.   *)

PropNames == {"axis", "facing", "waterlogged"}

ValuesOf(k) ==
    CASE k = "axis" -> {"x", "y"}
      [] k = "facing" -> {"north", "south"}
      [] OTHER -> {"true"}

\* The position of a string among the strings of the model, in code-unit order.
Rank(s) ==
    CASE s = "axis" -> 1
      [] s = "facing" -> 2
      [] s = "north" -> 3
      [] s = "south" -> 4
      [] s = "true" -> 5
      [] s = "waterlogged" -> 6
      [] s = "x" -> 7
      [] s = "y" -> 8
      [] OTHER -> 9

\* "k1=v1" < "k2=v2": no name of the model is a prefix of another one.
PairLess(p, q) ==
    \/ Rank(p[1]) < Rank(q[1])
    \/ (p[1] = q[1] /\ Rank(p[2]) < Rank(q[2]))

RECURSIVE Insert(_, _)
Insert(p, s) ==
    IF s = << >> THEN << p >>
    ELSE IF PairLess(s[1], p) THEN << s[1] >> \o Insert(p, Tail(s))
    ELSE << p >> \o s

RECURSIVE SortPairs(_)
SortPairs(s) == IF s = << >> THEN << >> ELSE Insert(s[1], SortPairs(Tail(s)))

\* block.properties[k]
HasProp(props, k) == \E i \in DOMAIN props : props[i][1] = k
PropValue(props, k) == props[CHOOSE i \in DOMAIN props : props[i][1] = k][2]

\* variants[key]
HasVariant(variants, key) == \E i \in DOMAIN variants : variants[i].key = key
VariantAt(variants, key) ==
    variants[CHOOSE i \in DOMAIN variants : variants[i].key = key].value

-----------------------------------------------------------------------------
(* Block-state definitions and block identifiers.                          *)

\* A `when` of a multipart entry: absent, a map property -> value (the value
\* split at "|" into its alternatives), {OR: [...]} or a JSON string.
When(k, cs, ss) == [kind |-> k, conds |-> cs, subs |-> ss]
WhenAbsent == When("absent", << >>, << >>)
WhenMap(cs) == When("map", cs, << >>)
WhenOr(ss) == When("OR", << >>, ss)
WhenString == When("string", << >>, << >>)

\* A parsed block-state file: `variants` is the object's entries in file
\* order, `multipart` the array.
BlockState(hv, vs, hm, ps) ==
    [hasVariants |-> hv, variants |-> vs, hasMultipart |-> hm, multipart |-> ps]
EmptyDefinition == BlockState(FALSE, << >>, FALSE, << >>)

\* matchesCondition of both resolvers.
matchesCondition(block, condition) ==
    \A i \in DOMAIN condition :
        LET property == condition[i][1]
            alts == condition[i][2]
        IN  /\ HasProp(block.properties, property)
            /\ \E j \in DOMAIN alts : alts[j] = PropValue(block.properties, property)

\* The `applies` flag of one multipart entry; "raise" for a TypeError.
partApplies(block, when) ==
    CASE when.kind = "absent" -> "true"
      [] when.kind = "string" -> "raise"
      [] when.kind = "OR" ->
            IF \E i \in DOMAIN when.subs : matchesCondition(block, when.subs[i])
            THEN "true" ELSE "false"
      [] OTHER -> IF matchesCondition(block, when.conds) THEN "true" ELSE "false"

\* createModelData (EntityRenderer.ts) and the object literal of
\* processVariantModel (types.ts): reading a field of undefined raises.
createModelData(modelHolder) ==
    IF ~modelHolder.def THEN Raise
    ELSE Ok(<< [model |-> modelHolder.model, x |-> modelHolder.x,
                y |-> modelHolder.y, uvlock |-> modelHolder.uvlock] >>)

\* Array.isArray(v) ? createModelData(v[0]) : createModelData(v)
mutProcessVariantModel(variant) ==
    IF IsArray(variant)
    THEN createModelData(IF variant.items = << >> THEN Undefined
                         ELSE variant.items[Len(variant.items)])
    ELSE createModelData(variant.holder)

processVariantModel(variant) ==
    IF IsArray(variant) THEN createModelData(First(variant))
    ELSE createModelData(variant.holder)

\* The loop over blockState.multipart of both resolvers.
RECURSIVE evalParts(_, _, _)
evalParts(block, parts, acc) ==
    IF parts = << >> THEN Ok(acc)
    ELSE LET part == parts[1]
             applies == partApplies(block, part.when)
         IN  IF applies = "raise" THEN Raise
             ELSE IF applies = "false" THEN evalParts(block, Tail(parts), acc)
             ELSE LET m == processVariantModel(part.apply)
                  IN  IF m.status = "raise" THEN Raise
                      ELSE evalParts(block, Tail(parts), acc \o m.models)

-----------------------------------------------------------------------------
(* ModelResolver of EntityRenderer.ts.                                     *)

\* validVariantProperties: the names before "=" in the non-empty keys.
validVariantProperties(variants) ==
    UNION { { variants[i].key[j][1] : j \in DOMAIN variants[i].key } :
            i \in DOMAIN variants }

\* filteredProps.sort().join(","), "" for a block without properties.
variantKey(block, variants) ==
    LET valid == validVariantProperties(variants)
        IsValid(p) == p[1] \in valid
    IN  SortPairs(SelectSeq(block.properties, IsValid))

\* The first property of the block, in the order the identifier lists them,
\* whose "key=value" is a variant key; 0 when there is none.
singlePropIndex(block, variants) ==
    LET hits == { i \in DOMAIN block.properties :
                    HasVariant(variants, << block.properties[i] >>) }
    IN  IF hits = {} THEN 0 ELSE CHOOSE i \in hits : \A j \in hits : i <= j

\* The variant the lookup settles on: exact key, "", single property, first.
selectVariant(block, variants) ==
    LET key == variantKey(block, variants)
        single == singlePropIndex(block, variants)
    IN  IF HasVariant(variants, key)
            THEN [found |-> TRUE, value |-> VariantAt(variants, key)]
        ELSE IF HasVariant(variants, << >>)
            THEN [found |-> TRUE, value |-> VariantAt(variants, << >>)]
        ELSE IF single # 0
            THEN [found |-> TRUE,
                  value |-> VariantAt(variants, << block.properties[single] >>)]
        ELSE IF variants # << >>
            THEN [found |-> TRUE, value |-> variants[1].value]
        ELSE [found |-> FALSE, value |-> Single(Undefined)]

\* ModelResolver.resolveBlockModel of EntityRenderer.ts, applied to the
\* definition getBlockState returned.
resolveBlockModel(block, def) ==
    IF ~def.hasVariants /\ ~def.hasMultipart THEN Ok(<< >>)
    ELSE LET v == IF def.hasVariants THEN selectVariant(block, def.variants)
                  ELSE [found |-> FALSE, value |-> Single(Undefined)]
             fromVariants == IF v.found THEN processVariantModel(v.value)
                             ELSE Ok(<< >>)
         IN  IF fromVariants.status = "raise" THEN Raise
             ELSE IF def.hasMultipart
                 THEN evalParts(block, def.multipart, fromVariants.models)
             ELSE fromVariants

-----------------------------------------------------------------------------
(* ModelResolver of types.ts.                                              *)

\* resolveVariants: "" when present, else all the properties sorted and
\* joined, else the first variant, else the default cube.
resolveVariants(block, variants) ==
    LET key == IF HasVariant(variants, << >>) THEN << >>
               ELSE SortPairs(block.properties)
    IN  IF HasVariant(variants, key)
            THEN processVariantModel(VariantAt(variants, key))
        ELSE IF variants # << >> /\ variants[1].key # << >>
            THEN processVariantModel(variants[1].value)
        ELSE Ok(<< DefaultCube >>)

\* resolveMultipart: the matching entries' models, the default cube if none.
resolveMultipart(block, multipart) ==
    LET r == evalParts(block, multipart, << >>)
    IN  IF r.status = "ok" /\ r.models = << >> THEN Ok(<< DefaultCube >>) ELSE r

\* ModelResolver.resolveBlockModel of types.ts.
mutResolveBlockModelTypes(block, def) ==
    IF ~def.hasVariants /\ ~def.hasMultipart THEN Ok(<< >>)
    ELSE IF def.hasVariants THEN resolveVariants(block, def.variants)
    ELSE resolveMultipart(block, def.multipart)

resolveBlockModelTypes(block, def) ==
    IF ~def.hasVariants /\ ~def.hasMultipart THEN Ok(<< DefaultCube >>)
    ELSE IF def.hasVariants THEN resolveVariants(block, def.variants)
    ELSE resolveMultipart(block, def.multipart)

-----------------------------------------------------------------------------
(* AssetLoader: archives and the lookups over them.                        *)

MAX_DEPTH == 5

BlockStateFile(blockId) == "blockstates/" \o blockId \o ".json"
ModelFile(modelPath) == "models/" \o modelPath \o ".json"

\* A BlockModel. An absent parent, elements or display is "undefined"; the
\* textures object is a map from names to strings, or absent.
NoTextures == [def |-> FALSE, map |-> EmptyMap]
Textures(m) == [def |-> TRUE, map |-> m]
\* uv: the faces of the elements carry the uv that mapUVCoordinates wrote
\* into them; no model file of the archives spells a uv out.
Model(p, t, e, d) ==
    [parent |-> p, textures |-> t, elements |-> e, display |-> d, uv |-> FALSE]
EmptyModel == Model("undefined", NoTextures, "undefined", "undefined")

\* A texture string: "#name", "name" or "minecraft:name".
Tex(h, n, s) == [hash |-> h, ns |-> n, name |-> s]
Ref(s) == Tex(TRUE, FALSE, s)
Lit(s) == Tex(FALSE, FALSE, s)
NsLit(s) == Tex(FALSE, TRUE, s)
NsRef(s) == Tex(TRUE, TRUE, s)      \* "minecraft:#name"

\* s.startsWith("#")
startsWithHash(t) == t.hash /\ ~t.ns

\* The names of the models of the archives.
MPath(i) == "block/m" \o ToString(i)

\* A parent field that holds a number: JSON allows it, String.replace is
\* not defined on it.
NotAString == "<number>"

\* The names the archives and the lookups use.
Names ==
    { MPath(i) : i \in 1..(MaxParents + 2) } \cup
    {"stone", "water", "lava", "block/water", "block/lava"}

\* name.replace("minecraft:", "")
stripMinecraft(name) ==
    IF \E n \in Names : name = "minecraft:" \o n
    THEN CHOOSE n \in Names : name = "minecraft:" \o n
    ELSE name

\* The loop of getResourceString over resourcePackOrder: the text of the
\* file in the first pack of the order that holds it.
RECURSIVE scanPacks(_, _, _)
scanPacks(order, packs, file) ==
    IF order = << >> THEN NoFile
    ELSE IF Has(packs, order[1]) /\ Has(packs[order[1]], file)
        THEN packs[order[1]][file]
    ELSE scanPacks(Tail(order), packs, file)

\* getResourceString: the cached text, else the scan's hit, which it caches.
getResourceString(cache, order, packs, file) ==
    IF Has(cache, file) THEN [text |-> cache[file], cache |-> cache]
    ELSE LET text == scanPacks(order, packs, file)
         IN  IF isNoFile(text) THEN [text |-> NoFile, cache |-> cache]
             ELSE [text |-> text, cache |-> Put(cache, file, text)]

\* getBlockState: the cached definition, else the parsed file, which it
\* caches; {} for a missing file and for a file that does not parse.
getBlockState(id) ==
    LET blockId == stripMinecraft(id) IN
    IF Has(blockStateCache, blockId)
    THEN [def |-> blockStateCache[blockId], strings |-> stringCache,
          states |-> blockStateCache]
    ELSE LET r == getResourceString(stringCache, resourcePackOrder,
                                    resourcePacks, BlockStateFile(blockId))
             parsed == JSONparse(r.text)
         IN  IF isNoFile(r.text) \/ parsed.status = "raise"
             THEN [def |-> EmptyDefinition, strings |-> r.cache,
                   states |-> blockStateCache]
             ELSE [def |-> parsed.value, strings |-> r.cache,
                   states |-> Put(blockStateCache, blockId, parsed.value)]

\* getBlockState over given caches.
getBlockStateIn(id, strings, states, order, packs) ==
    LET blockId == stripMinecraft(id) IN
    IF Has(states, blockId)
    THEN [def |-> states[blockId], strings |-> strings, states |-> states]
    ELSE LET r == getResourceString(strings, order, packs, BlockStateFile(blockId))
             parsed == JSONparse(r.text)
         IN  IF isNoFile(r.text) \/ parsed.status = "raise"
             THEN [def |-> EmptyDefinition, strings |-> r.cache, states |-> states]
             ELSE [def |-> parsed.value, strings |-> r.cache,
                   states |-> Put(states, blockId, parsed.value)]

\* The object spread {...parentModel.textures, ...currentModel.textures}.
mergeTextures(parentTextures, childTextures) ==
    Textures([k \in (DOMAIN parentTextures.map) \cup (DOMAIN childTextures.map) |->
                IF Has(childTextures.map, k) THEN childTextures.map[k]
                ELSE parentTextures.map[k]])

Or(a, b) == IF a # "undefined" THEN a ELSE b

\* The object literal that merges a parent into the current model.
mutMergeModels(parentModel, currentModel) ==
    Model(Or(currentModel.parent, parentModel.parent),
          mergeTextures(currentModel.textures, parentModel.textures),
          Or(parentModel.elements, currentModel.elements),
          Or(currentModel.display, parentModel.display))

mergeModels(parentModel, currentModel) ==
    Model(Or(currentModel.parent, parentModel.parent),
          mergeTextures(parentModel.textures, currentModel.textures),
          Or(currentModel.elements, parentModel.elements),
          Or(currentModel.display, parentModel.display))

\* The local variables of loadAndMergeModel; pc is "idle" outside a call.
Idle == [pc |-> "idle", key |-> "", currentModel |-> EmptyModel,
         parentPath |-> "", depth |-> 0, loads |-> 0]

\* The loop condition of loadAndMergeModel.
mutLoopGuard(m) == m.parentPath # "" /\ m.depth <= MAX_DEPTH

loopGuard(m) == m.parentPath # "" /\ m.depth < MAX_DEPTH

\* One pass of the loop of loadAndMergeModel on its local variables m, with
\* the string cache the read of the parent's file leaves behind. The pass
\* raises on a parent that is no string, breaks on a parent that is missing
\* or does not parse, and else merges the parent in.
mergeIter(m, cache, order, packs) ==
    IF m.parentPath = NotAString
    THEN [m |-> [m EXCEPT !.pc = "raise"], cache |-> cache]
    ELSE
    LET path == stripMinecraft(m.parentPath)
        r == getResourceString(cache, order, packs, ModelFile(path))
        parsed == JSONparse(r.text)
    IN  IF isNoFile(r.text) \/ parsed.status = "raise"
        THEN [m |-> [m EXCEPT !.pc = "break", !.parentPath = path,
                              !.loads = @ + 1],
              cache |-> r.cache]
        ELSE LET parentModel == parsed.value
             IN  [m |-> [m EXCEPT
                            !.currentModel = mergeModels(parentModel, @),
                            !.parentPath = IF parentModel.parent = "undefined"
                                           THEN "" ELSE parentModel.parent,
                            !.depth = @ + 1,
                            !.loads = @ + 1],
                  cache |-> r.cache]

\* loadAndMergeModel run to its end: the passes of the loop, then
\* delete currentModel.parent; raised is TRUE when a pass raised.
RECURSIVE runMerge(_, _, _, _)
runMerge(m, cache, order, packs) ==
    IF m.pc = "loop" /\ loopGuard(m)
    THEN LET n == mergeIter(m, cache, order, packs)
         IN  runMerge(n.m, n.cache, order, packs)
    ELSE [model |-> [m.currentModel EXCEPT !.parent = "undefined"],
          cache |-> cache, loads |-> m.loads, raised |-> m.pc = "raise"]

\* The liquids, and the model paths that getModel treats as liquid:
\* modelPath.startsWith("block/water") || modelPath.startsWith("block/lava").
Liquids == {"water", "lava"}
LiquidBase(kind) == "block/" \o kind
LiquidLevel(kind, n) == LiquidBase(kind) \o "_level_" \o ToString(n)
LiquidPaths ==
    { LiquidBase(k) : k \in Liquids } \cup
    { LiquidLevel(k, n) : k \in Liquids, n \in 0..MaxLevel }
startsWithLiquid(modelPath) == modelPath \in LiquidPaths
isWater(modelPath) ==
    modelPath = LiquidBase("water") \/
    \E n \in 0..MaxLevel : modelPath = LiquidLevel("water", n)

\* modelPath.match(/_level_(\d+)/) and parseInt of its group; level 0
\* without a match.
levelMatch(modelPath) ==
    \E k \in Liquids, n \in 0..MaxLevel : modelPath = LiquidLevel(k, n)
levelOf(modelPath) ==
    IF levelMatch(modelPath)
    THEN CHOOSE n \in 0..MaxLevel :
            \E k \in Liquids : modelPath = LiquidLevel(k, n)
    ELSE 0

\* liquidHeight and actualHeight.
liquidHeight(level) == IF level = 0 THEN 16 ELSE 16 - level * 2
mutActualHeight(water, level) == liquidHeight(level)
actualHeight(water, level) ==
    IF water /\ level = 0 THEN 14 ELSE liquidHeight(level)

\* The elements array of the synthetic model: one element from [0,0,0] to
\* [16, h, 16].
Cuboid(h) == "[{from:[0,0,0],to:[16," \o ToString(h) \o ",16]}]"

\* The textures of the synthetic model.
liquidTextures(water) ==
    LET still == IF water THEN "block/water_still" ELSE "block/lava_still"
        flow == IF water THEN "block/water_flow" ELSE "block/lava_flow"
    IN  Textures([k \in {"particle", "all", "top", "bottom",
                         "north", "south", "east", "west"} |->
                    IF k \in {"particle", "all", "top", "bottom"}
                    THEN Lit(still) ELSE Lit(flow)])

\* The liquid branch of getModel: the synthetic model, the textures of the
\* archive's model of the same name (else of the base name) assigned over
\* its own, the archive's elements only for a path without a level. What
\* the reads and JSON.parse raise is caught; the model is cached.
getLiquidModel(modelPath, strings, models, order, packs) ==
    LET water == isWater(modelPath)
        liquidModel == Model("undefined", liquidTextures(water),
                             Cuboid(actualHeight(water, levelOf(modelPath))),
                             "undefined")
        exact == getResourceString(strings, order, packs, ModelFile(modelPath))
        base == IF isNoFile(exact.text) /\ levelMatch(modelPath)
                THEN getResourceString(exact.cache, order, packs,
                        ModelFile(LiquidBase(IF water THEN "water" ELSE "lava")))
                ELSE exact
        parsed == JSONparse(base.text)
        model == IF isNoFile(base.text) \/ parsed.status = "raise"
                 THEN liquidModel
                 ELSE Model("undefined",
                            IF parsed.value.textures.def
                            THEN mergeTextures(liquidModel.textures,
                                               parsed.value.textures)
                            ELSE liquidModel.textures,
                            IF parsed.value.elements # "undefined"
                               /\ ~levelMatch(modelPath)
                            THEN parsed.value.elements
                            ELSE liquidModel.elements,
                            "undefined")
    IN  [model |-> model, strings |-> base.cache,
         models |-> Put(models, modelPath, model)]

\* getModel, run to its end: the model, and the caches
\* it leaves behind. What loadAndMergeModel raises is caught: {} is returned
\* and nothing is cached.
getModel(path, strings, models, order, packs) ==
    LET modelPath == stripMinecraft(path) IN
    IF Has(models, modelPath)
    THEN [model |-> models[modelPath], strings |-> strings, models |-> models]
    ELSE IF startsWithLiquid(modelPath)
    THEN getLiquidModel(modelPath, strings, models, order, packs)
    ELSE LET r == getResourceString(strings, order, packs, ModelFile(modelPath))
             parsed == JSONparse(r.text)
         IN  IF isNoFile(r.text) \/ parsed.status = "raise"
             THEN [model |-> EmptyModel, strings |-> r.cache, models |-> models]
             ELSE IF parsed.value.parent = "undefined"
             THEN [model |-> parsed.value, strings |-> r.cache,
                   models |-> Put(models, modelPath, parsed.value)]
             ELSE LET f == runMerge([Idle EXCEPT !.pc = "loop",
                                                 !.key = modelPath,
                                                 !.currentModel = parsed.value,
                                                 !.parentPath = parsed.value.parent],
                                    r.cache, order, packs)
                  IN  IF f.raised
                      THEN [model |-> EmptyModel, strings |-> f.cache,
                            models |-> models]
                      ELSE [model |-> f.model, strings |-> f.cache,
                            models |-> Put(models, modelPath, f.model)]

-----------------------------------------------------------------------------
(* AssetLoader.resolveTexture.                                             *)

TEXTURE_MAX_DEPTH == 5

MissingTexture == Lit("block/missing_texture")

\* s.replace("minecraft:", "")
stripNamespace(t) == [t EXCEPT !.ns = FALSE]

\* model.textures[key] || ref
derefOnce(ref, model) ==
    IF Has(model.textures.map, ref.name) /\ model.textures.map[ref.name] # Lit("")
    THEN model.textures.map[ref.name]
    ELSE ref

\* The while loop of resolveTexture: the reference and the depth it ends with.
RECURSIVE derefLoop(_, _, _)
derefLoop(ref, model, depth) ==
    IF startsWithHash(ref) /\ depth < TEXTURE_MAX_DEPTH
    THEN derefLoop(derefOnce(ref, model), model, depth + 1)
    ELSE [ref |-> ref, depth |-> depth]

\* The test after the loop that sends the result to the missing texture.
overDepth(end) == end.depth >= TEXTURE_MAX_DEPTH \/ startsWithHash(end.ref)

resolveTexture(textureRef, model) ==
    IF textureRef = Lit("") \/ textureRef = Ref("missing") THEN MissingTexture
    ELSE IF ~startsWithHash(textureRef) THEN stripNamespace(textureRef)
    ELSE IF ~model.textures.def THEN MissingTexture
    ELSE LET end == derefLoop(textureRef, model, 0)
         IN  IF overDepth(end) THEN MissingTexture
             ELSE stripNamespace(end.ref)

-----------------------------------------------------------------------------
(* The resolvers on one archive: block-state files and block identifiers.  *)

StoneFile == BlockStateFile("stone")

Plain(m) == Holder(m, "undefined", "undefined", "undefined", "undefined")

\* The value of the entry at position i of a block-state file.
EntryModel(i) == "block/entry" \o ToString(i)
EntryValue(i, kind) ==
    CASE kind = "single" -> Single(Plain(EntryModel(i)))
      [] kind = "array" -> Array(<< Holder(EntryModel(i), "0", "90", "true", "1"),
                                    Holder("block/other", "90", "0", "false", "3") >>)
      [] OTHER -> Array(<< >>)
ValueKinds == {"single", "array", "empty"}

VariantKeys ==
    { << >>,
      << <<"axis", "x">> >>,
      << <<"facing", "north">> >>,
      << <<"axis", "x">>, <<"facing", "north">> >>,
      << <<"facing", "north">>, <<"axis", "x">> >> }

Whens ==
    { WhenAbsent,
      WhenMap(<< <<"facing", <<"north", "south">> >> >>),
      WhenMap(<< <<"axis", <<"x">> >>, <<"facing", <<"north">> >> >>),
      WhenOr(<< << <<"axis", <<"y">> >> >>, << <<"facing", <<"south">> >> >> >>),
      WhenString }

SeqsUpTo(S, n) == UNION { [1..k -> S] : k \in 0..n }

VariantLists ==
    { [i \in DOMAIN s |-> [key |-> s[i][1], value |-> EntryValue(i, s[i][2])]] :
        s \in { t \in SeqsUpTo(VariantKeys \X ValueKinds, MaxVariants) :
                  \A i, j \in DOMAIN t : i # j => t[i][1] # t[j][1] } }

PartLists ==
    { [i \in DOMAIN s |-> [when |-> s[i][1], apply |-> EntryValue(i, s[i][2])]] :
        s \in SeqsUpTo(Whens \X ValueKinds, MaxParts) }

Definitions ==
    { BlockState(TRUE, vs, FALSE, << >>) : vs \in VariantLists }
      \cup { BlockState(FALSE, << >>, TRUE, ps) : ps \in PartLists }
      \cup { EmptyDefinition }

\* The texts blockstates/stone.json may hold.
StoneTexts == { Json(d) : d \in Definitions } \cup { Garbage }

\* The property lists of the identifiers: distinct names, in written order.
PropLists ==
    { s \in SeqsUpTo(UNION { {k} \X ValuesOf(k) : k \in PropNames }, MaxProps) :
        \A i, j \in DOMAIN s : i # j => s[i][1] # s[j][1] }

Blocks == { [namespace |-> "minecraft", name |-> "stone", properties |-> ps] :
              ps \in PropLists }

NoCall == [fn |-> "none"]

\* One pack is loaded; it holds blockstates/stone.json, or not.
InitResolve ==
    /\ \E zip \in { EmptyMap } \cup { Put(EmptyMap, StoneFile, t) : t \in StoneTexts } :
          resourcePacks = Put(EmptyMap, 0, zip) /\ loaded = << zip >>
    /\ resourcePackOrder = << 0 >>
    /\ now = 0
    /\ stringCache = EmptyMap
    /\ blockStateCache = EmptyMap
    /\ modelCache = EmptyMap
    /\ textureCache = EmptyMap
    /\ materialCache = EmptyMap
    /\ blockMeshCache = EmptyMap
    /\ entityMeshCache = EmptyMap
    /\ packCache = EmptyMap
    /\ call = NoCall
    /\ ret = NoCall
    /\ merge = Idle
    /\ modelResolver = "types"

\* modelResolver.resolveBlockModel(block) with the resolver of
\* EntityRenderer.ts: getBlockState, then the resolution. A behaviour
\* resolves one identifier against its archive.
ResolveEntityRenderer(block) ==
    LET s == getBlockState(stripMinecraft(block.name))
    IN  /\ call = NoCall
        /\ call' = [fn |-> "resolveBlockModel", resolver |-> "EntityRenderer",
                    block |-> block, def |-> s.def]
        /\ ret' = resolveBlockModel(block, s.def)
        /\ stringCache' = s.strings
        /\ blockStateCache' = s.states
        /\ UNCHANGED << loaderVars, modelCache, textureCache, materialCache,
                        blockMeshCache, entityMeshCache, merge >>

\* The same with the resolver of types.ts.
ResolveTypes(block) ==
    LET s == getBlockState(stripMinecraft(block.name))
    IN  /\ call = NoCall
        /\ call' = [fn |-> "resolveBlockModel", resolver |-> "types",
                    block |-> block, def |-> s.def]
        /\ ret' = resolveBlockModelTypes(block, s.def)
        /\ stringCache' = s.strings
        /\ blockStateCache' = s.states
        /\ UNCHANGED << loaderVars, modelCache, textureCache, materialCache,
                        blockMeshCache, entityMeshCache, merge >>

NextResolve ==
    \/ \E block \in Blocks : ResolveEntityRenderer(block)
    \/ \E block \in Blocks : ResolveTypes(block)

SpecResolve == InitResolve /\ [][NextResolve]_vars

-----------------------------------------------------------------------------
(* resolveTexture on one model: texture maps and references.               *)

TName(i) == "t" \o ToString(i)

\* What the last name of a chain of references maps to.
TextureTails == {"literal", "namespaced", "dangling", "cycle", "empty", "nsref"}

\* t1 -> "#t2" -> ... -> "#t(links+1)", and t(links+1) -> the tail.
ChainTextures(links, tail, withMissing) ==
    LET names == { TName(i) : i \in 1..(links + 1) }
        keys == (IF tail = "dangling" THEN names \ { TName(links + 1) } ELSE names)
                    \cup (IF withMissing THEN {"missing"} ELSE {})
        Index(k) == CHOOSE i \in 1..(links + 1) : TName(i) = k
    IN  Textures([k \in keys |->
            IF k = "missing" THEN Lit("block/dirt")
            ELSE IF Index(k) <= links THEN Ref(TName(Index(k) + 1))
            ELSE CASE tail = "literal" -> Lit("block/stone")
                   [] tail = "namespaced" -> NsLit("block/stone")
                   [] tail = "cycle" -> Ref("t1")
                   [] tail = "nsref" -> NsRef("t1")
                   [] OTHER -> Lit("")])

\* {textures: {top: "#all", all: "block/stone"}}
TopAllTextures ==
    Textures([k \in {"top", "all"} |->
                IF k = "top" THEN Ref("all") ELSE Lit("block/stone")])

TextureMaps ==
    { ChainTextures(l, t, m) : l \in 0..MaxLinks, t \in TextureTails, m \in BOOLEAN }
        \cup { TopAllTextures, NoTextures }

TextureRefs ==
    { Ref("t1"), Ref("top"), Ref("missing"), Lit("block/dirt"),
      NsLit("block/dirt"), Lit("") }

\* The model of block/stone is in the model cache; nothing else is loaded.
InitTexture ==
    /\ resourcePacks = EmptyMap
    /\ resourcePackOrder = << >>
    /\ loaded = << >>
    /\ now = 0
    /\ stringCache = EmptyMap
    /\ blockStateCache = EmptyMap
    /\ \E t \in TextureMaps :
          modelCache = Put(EmptyMap, "block/stone",
                           Model("undefined", t, "elements", "undefined"))
    /\ textureCache = EmptyMap
    /\ materialCache = EmptyMap
    /\ blockMeshCache = EmptyMap
    /\ entityMeshCache = EmptyMap
    /\ packCache = EmptyMap
    /\ call = NoCall
    /\ ret = NoCall
    /\ merge = Idle
    /\ modelResolver = "types"

\* assetLoader.resolveTexture(textureRef, model), the model a cached one.
\* A behaviour resolves one reference.
ResolveTexture(textureRef) ==
    /\ call = NoCall
    /\ call' = [fn |-> "resolveTexture", textureRef |-> textureRef,
                model |-> modelCache["block/stone"]]
    /\ ret' = resolveTexture(textureRef, modelCache["block/stone"])
    /\ UNCHANGED << loaderVars, cacheVars, merge >>

NextTexture == \E textureRef \in TextureRefs : ResolveTexture(textureRef)

SpecTexture == InitTexture /\ [][NextTexture]_vars

-----------------------------------------------------------------------------
(* getModel, one step per await of loadAndMergeModel.                      *)

\* getModel(modelPath) up to the first read of a parent: the cached model;
\* {} for a missing or malformed file; the parsed model when it names no
\* parent; else loadAndMergeModel starts on it.
GetModelStart(path) ==
    LET modelPath == stripMinecraft(path) IN
    /\ merge.pc = "idle"
    /\ IF Has(modelCache, modelPath)
       THEN /\ call' = [fn |-> "getModel", modelPath |-> modelPath, loads |-> 0]
            /\ ret' = modelCache[modelPath]
            /\ UNCHANGED << stringCache, modelCache, merge >>
       ELSE IF startsWithLiquid(modelPath)
       THEN \E liquid \in { getLiquidModel(modelPath, stringCache, modelCache,
                                            resourcePackOrder, resourcePacks) } :
               /\ call' = [fn |-> "getModel", modelPath |-> modelPath, loads |-> 0]
               /\ ret' = liquid.model
               /\ stringCache' = liquid.strings
               /\ modelCache' = liquid.models
               /\ UNCHANGED merge
       ELSE LET r == getResourceString(stringCache, resourcePackOrder,
                                       resourcePacks, ModelFile(modelPath))
                parsed == JSONparse(r.text)
            IN  /\ stringCache' = r.cache
                /\ IF isNoFile(r.text) \/ parsed.status = "raise"
                   THEN /\ call' = [fn |-> "getModel", modelPath |-> modelPath, loads |-> 0]
                        /\ ret' = EmptyModel
                        /\ UNCHANGED << modelCache, merge >>
                   ELSE IF parsed.value.parent = "undefined"
                   THEN /\ call' = [fn |-> "getModel", modelPath |-> modelPath, loads |-> 0]
                        /\ ret' = parsed.value
                        /\ modelCache' = Put(modelCache, modelPath, parsed.value)
                        /\ UNCHANGED merge
                   ELSE /\ merge' = [Idle EXCEPT !.pc = "loop",
                                                 !.key = modelPath,
                                                 !.currentModel = parsed.value,
                                                 !.parentPath = parsed.value.parent]
                        /\ call' = [fn |-> "loadAndMergeModel",
                                    modelPath |-> modelPath, loads |-> 0]
                        /\ ret' = NoCall
                        /\ UNCHANGED modelCache
    /\ UNCHANGED << loaderVars, blockStateCache, textureCache, materialCache,
                    blockMeshCache, entityMeshCache >>

\* One pass of the while loop: read the parent, merge it in.
MergeIterate ==
    /\ merge.pc = "loop"
    /\ loopGuard(merge)
    /\ LET n == mergeIter(merge, stringCache, resourcePackOrder, resourcePacks)
       IN  /\ merge' = n.m
           /\ stringCache' = n.cache
           /\ call' = [fn |-> "loadAndMergeModel", modelPath |-> merge.key,
                       loads |-> n.m.loads]
           /\ ret' = NoCall
    /\ UNCHANGED << loaderVars, blockStateCache, modelCache, textureCache,
                    materialCache, blockMeshCache, entityMeshCache >>

\* The loop is left: delete the parent field, cache the model, return it.
\* A pass that raised is caught by getModel, which returns {} uncached.
MergeFinish ==
    /\ merge.pc \in {"break", "raise"} \/ (merge.pc = "loop" /\ ~loopGuard(merge))
    /\ call' = [fn |-> "getModel", modelPath |-> merge.key, loads |-> merge.loads]
    /\ IF merge.pc = "raise"
       THEN ret' = EmptyModel /\ UNCHANGED modelCache
       ELSE LET final == [merge.currentModel EXCEPT !.parent = "undefined"]
            IN  modelCache' = Put(modelCache, merge.key, final) /\ ret' = final
    /\ merge' = Idle
    /\ UNCHANGED << loaderVars, stringCache, blockStateCache, textureCache,
                    materialCache, blockMeshCache, entityMeshCache >>

-----------------------------------------------------------------------------
(* getModel on one archive: parent chains.                                 *)

\* What the parent field of the last model of a chain names.
ChainTails == {"end", "cycle", "self", "missing", "garbage", "number"}

\* At most two of the models 1..n.
UpToTwo(n) == { S \in SUBSET (1..n) : Cardinality(S) <= 2 }

\* The archive of a chain m1 -> m2 -> ... -> mn: the models of E define
\* elements, the models of T define textures and display; every second
\* model names its parent with the "minecraft:" prefix.
ChainZip(n, tail, E, T) ==
    LET ModelAt(i) ==
            Model(IF i < n
                  THEN IF i % 2 = 0 THEN "minecraft:" \o MPath(i + 1)
                       ELSE MPath(i + 1)
                  ELSE CASE tail = "end" -> "undefined"
                         [] tail = "cycle" -> MPath(1)
                         [] tail = "self" -> MPath(n)
                         [] tail = "missing" -> "block/absent"
                         [] tail = "number" -> NotAString
                         [] OTHER -> "block/garbage",
                  IF i \in T
                  THEN Textures([k \in {"all", TName(i)} |->
                                    Lit("block/texture" \o ToString(i))])
                  ELSE NoTextures,
                  IF i \in E THEN "elements" \o ToString(i) ELSE "undefined",
                  IF i \in T THEN "display" \o ToString(i) ELSE "undefined")
        Index(f) == CHOOSE i \in 1..n : ModelFile(MPath(i)) = f
    IN  [f \in { ModelFile(MPath(i)) : i \in 1..n } \cup { ModelFile("block/garbage") } |->
            IF f = ModelFile("block/garbage") THEN Garbage ELSE Json(ModelAt(Index(f)))]

\* Textures and display are defined by the child, by the last model, by
\* both or by none.
ChainZips ==
    UNION { { ChainZip(n, tail, E, T) : tail \in ChainTails, E \in UpToTwo(n),
                                        T \in SUBSET {1, n} } :
            n \in 1..(MaxParents + 1) }

\* One pack is loaded; it holds a chain of models.
InitMerge ==
    /\ \E zip \in ChainZips :
          resourcePacks = Put(EmptyMap, 0, zip) /\ loaded = << zip >>
    /\ resourcePackOrder = << 0 >>
    /\ now = 0
    /\ stringCache = EmptyMap
    /\ blockStateCache = EmptyMap
    /\ modelCache = EmptyMap
    /\ textureCache = EmptyMap
    /\ materialCache = EmptyMap
    /\ blockMeshCache = EmptyMap
    /\ entityMeshCache = EmptyMap
    /\ packCache = EmptyMap
    /\ call = NoCall
    /\ ret = NoCall
    /\ merge = Idle
    /\ modelResolver = "types"

NextMerge ==
    \/ GetModelStart(MPath(1))
    \/ MergeIterate
    \/ MergeFinish

SpecMerge == InitMerge /\ [][NextMerge]_vars

\* Every pass of the loop and its exit are taken once they can be: the
\* awaited reads of an archive complete.
FairSpecMerge == SpecMerge /\ WF_vars(MergeIterate) /\ WF_vars(MergeFinish)

\* The liquid models of one archive: the model of one level and the model
\* of the liquid's base name are each absent, complete (textures and
\* elements) or not JSON.
FileKinds == {"absent", "complete", "garbage"}
CustomModel(tag) ==
    Model("undefined",
          Textures([k \in {"all", "overlay"} |-> Lit("block/custom_" \o tag)]),
          "elements_" \o tag, "undefined")
LiquidZip(kind, n, exact, base) ==
    LET files == (IF exact = "absent" THEN {}
                  ELSE { ModelFile(LiquidLevel(kind, n)) }) \cup
                 (IF base = "absent" THEN {}
                  ELSE { ModelFile(LiquidBase(kind)) })
    IN  [f \in files |->
            IF f = ModelFile(LiquidBase(kind))
            THEN IF base = "garbage" THEN Garbage ELSE Json(CustomModel("base"))
            ELSE IF exact = "garbage" THEN Garbage ELSE Json(CustomModel("level"))]
LiquidZips ==
    { LiquidZip(k, n, e, b) :
        k \in Liquids, n \in 0..MaxLevel, e \in FileKinds, b \in FileKinds }

\* One pack is loaded; it holds liquid models or none.
InitLiquid ==
    /\ \E zip \in LiquidZips :
          resourcePacks = Put(EmptyMap, 0, zip) /\ loaded = << zip >>
    /\ resourcePackOrder = << 0 >>
    /\ now = 0
    /\ stringCache = EmptyMap
    /\ blockStateCache = EmptyMap
    /\ modelCache = EmptyMap
    /\ textureCache = EmptyMap
    /\ materialCache = EmptyMap
    /\ blockMeshCache = EmptyMap
    /\ entityMeshCache = EmptyMap
    /\ packCache = EmptyMap
    /\ call = NoCall
    /\ ret = NoCall
    /\ merge = Idle
    /\ modelResolver = "types"

\* A liquid's model is asked for, and asked for again.
NextLiquid ==
    \E path \in LiquidPaths :
        DOMAIN modelCache \subseteq {path} /\ GetModelStart(path)

SpecLiquid == InitLiquid /\ [][NextLiquid]_vars

-----------------------------------------------------------------------------
(* parseBlockString, of Cubane and of the exported utility. A string is a   *)
(* sequence of characters; a word of the alphabet stands for its run of     *)
(* letters.                                                                 *)

Words == {"minecraft", "mod", "stone", "oak_log"} \cup PropNames \cup
         UNION { ValuesOf(k) : k \in PropNames }

\* The string of a sequence of characters.
RECURSIVE Join(_)
Join(chars) == IF chars = << >> THEN "" ELSE chars[1] \o Join(Tail(chars))

\* String.prototype.split(sep): the runs between the separators.
RECURSIVE split(_, _)
split(chars, sep) ==
    IF \A i \in DOMAIN chars : chars[i] # sep THEN << chars >>
    ELSE LET i == CHOOSE j \in DOMAIN chars :
                     chars[j] = sep /\ \A k \in 1..(j - 1) : chars[k] # sep
         IN  << SubSeq(chars, 1, i - 1) >> \o
             split(SubSeq(chars, i + 1, Len(chars)), sep)

\* String.prototype.indexOf(c): the index from 0, or -1.
indexOf(chars, c) ==
    IF \A i \in DOMAIN chars : chars[i] # c THEN -1
    ELSE (CHOOSE j \in DOMAIN chars :
             chars[j] = c /\ \A k \in 1..(j - 1) : chars[k] # c) - 1

\* String.prototype.substring(start, end): both clamped to the string, the
\* smaller one first.
substring(chars, start, end) ==
    LET Clamp(n) == IF n < 0 THEN 0 ELSE IF n > Len(chars) THEN Len(chars) ELSE n
        a == Clamp(start)
        b == Clamp(end)
    IN  IF a <= b THEN SubSeq(chars, a + 1, b) ELSE SubSeq(chars, b + 1, a)

\* String.prototype.trim()
RECURSIVE trim(_)
trim(chars) ==
    IF chars = << >> THEN chars
    ELSE IF chars[1] = " " THEN trim(Tail(chars))
    ELSE IF chars[Len(chars)] = " " THEN trim(SubSeq(chars, 1, Len(chars) - 1))
    ELSE chars

\* properties[key] = value: a new key is appended, a known key keeps its place.
SetProp(props, key, value) ==
    IF HasProp(props, key)
    THEN [i \in DOMAIN props |->
            IF props[i][1] = key THEN << key, value >> ELSE props[i]]
    ELSE Append(props, << key, value >>)

\* propertiesString.split(",").forEach(...): the pairs whose key and value
\* are both non-empty, trimmed.
RECURSIVE forEachProp(_, _)
forEachProp(parts, props) ==
    IF parts = << >> THEN props
    ELSE LET kv == split(parts[1], "=")
             key == kv[1]
             value == IF Len(kv) > 1 THEN kv[2] ELSE << >>
         IN  forEachProp(Tail(parts),
                 IF key # << >> /\ value # << >>
                 THEN SetProp(props, Join(trim(key)), Join(trim(value)))
                 ELSE props)

\* The name and the properties of "name[k=v,...]" or of "name".
nameAndProperties(remaining) ==
    LET propertyIndex == indexOf(remaining, "[") IN
    IF propertyIndex # -1
    THEN [name |-> Join(substring(remaining, 0, propertyIndex)),
          properties |->
              forEachProp(split(substring(remaining, propertyIndex + 1,
                                          Len(remaining) - 1), ","), << >>)]
    ELSE [name |-> Join(remaining), properties |-> << >>]

\* Cubane.parseBlockString
parseBlockString(blockString) ==
    LET namespaceParts == split(blockString, ":") IN
    IF Len(namespaceParts) > 1
    THEN LET r == nameAndProperties(namespaceParts[2])
         IN  [namespace |-> Join(namespaceParts[1]), name |-> r.name,
              properties |-> r.properties]
    ELSE LET r == nameAndProperties(blockString)
         IN  [namespace |-> "minecraft", name |-> r.name,
              properties |-> r.properties]

\* The exported parseBlockString: without a namespace the whole string is
\* the name.
parseBlockStringExported(blockString) ==
    LET namespaceParts == split(blockString, ":") IN
    IF Len(namespaceParts) > 1
    THEN LET r == nameAndProperties(namespaceParts[2])
         IN  [namespace |-> Join(namespaceParts[1]), name |-> r.name,
              properties |-> r.properties]
    ELSE [namespace |-> "minecraft", name |-> Join(blockString),
          properties |-> << >>]

\* The strings of the grammar [namespace:]name['[' k=v (',' k=v)* ']'],
\* with or without blanks around keys and values.
Namespaces == {"", "minecraft", "mod"}
BlockNames == {"stone", "oak_log"}
RECURSIVE WriteProps(_, _)
WriteProps(ps, blanks) ==
    IF ps = << >> THEN << >>
    ELSE (IF blanks THEN << " ", ps[1][1], " ", "=", " ", ps[1][2], " " >>
          ELSE << ps[1][1], "=", ps[1][2] >>) \o
         (IF Len(ps) > 1 THEN << "," >> ELSE << >>) \o
         WriteProps(Tail(ps), blanks)
Write(ns, name, ps, blanks) ==
    (IF ns = "" THEN << >> ELSE << ns, ":" >>) \o << name >> \o
    (IF ps = << >> THEN << >> ELSE << "[" >> \o WriteProps(ps, blanks) \o << "]" >>)

BlockStrings ==
    { Write(ns, name, ps, blanks) :
        ns \in Namespaces, name \in BlockNames, ps \in PropLists,
        blanks \in BOOLEAN }

\* Nothing is loaded; a string is parsed.
InitParse ==
    /\ resourcePacks = EmptyMap
    /\ resourcePackOrder = << >>
    /\ loaded = << >>
    /\ now = 0
    /\ stringCache = EmptyMap
    /\ blockStateCache = EmptyMap
    /\ modelCache = EmptyMap
    /\ textureCache = EmptyMap
    /\ materialCache = EmptyMap
    /\ blockMeshCache = EmptyMap
    /\ entityMeshCache = EmptyMap
    /\ packCache = EmptyMap
    /\ call = NoCall
    /\ ret = NoCall
    /\ merge = Idle
    /\ modelResolver = "types"

ParseBlockString(blockString) ==
    /\ call = NoCall
    /\ call' = [fn |-> "parseBlockString", copy |-> "Cubane",
                blockString |-> blockString]
    /\ ret' = parseBlockString(blockString)
    /\ UNCHANGED << loaderVars, cacheVars, merge >>

ParseBlockStringExported(blockString) ==
    /\ call = NoCall
    /\ call' = [fn |-> "parseBlockString", copy |-> "exported",
                blockString |-> blockString]
    /\ ret' = parseBlockStringExported(blockString)
    /\ UNCHANGED << loaderVars, cacheVars, merge >>

NextParse ==
    \/ \E b \in BlockStrings : ParseBlockString(b)
    \/ \E b \in BlockStrings : ParseBlockStringExported(b)

SpecParse == InitParse /\ [][NextParse]_vars

-----------------------------------------------------------------------------
(* AssetLoader: textures and materials; Cubane: block meshes.              *)

TextureFile(texturePath) == "textures/" \o texturePath \o ".png"

\* The texture names of the archives, without the "block/" prefix.
TextureNames == {"texture1", "moved", "broken", "missing_texture",
                 "water_still", "water_flow", "lava_still", "lava_flow"}

\* texturePath.replace("block/", "") for a path that starts with "block/".
startsWithBlock(texturePath) == \E n \in TextureNames : texturePath = "block/" \o n
withoutBlock(texturePath) ==
    IF startsWithBlock(texturePath)
    THEN CHOOSE n \in TextureNames : texturePath = "block/" \o n
    ELSE texturePath

\* A THREE.Texture is known by the blob it was made of.
Texture(blob) == [blob |-> blob]
createMissingTexture == Texture("<magenta>")

\* Bytes the texture loader does not decode.
NotAnImage == "<not an image>"

\* createTextureFromBlob: the texture, cached, when the image decodes; the
\* missing texture, uncached, when it does not.
createTextureFromBlob(blob, cacheKey, textures) ==
    IF blob.value # NotAnImage
    THEN [texture |-> Texture(blob), textures |-> Put(textures, cacheKey, Texture(blob))]
    ELSE [texture |-> createMissingTexture, textures |-> textures]

\* getTexture of a texture that is not animated.
getTexture(texturePath, textures, order, packs) ==
    IF texturePath \in {"", "missing_texture", "block/missing_texture"}
    THEN [texture |-> createMissingTexture, textures |-> textures]
    ELSE IF Has(textures, texturePath)
    THEN [texture |-> textures[texturePath], textures |-> textures]
    ELSE LET blob == scanPacks(order, packs, TextureFile(texturePath))
             altBlob == scanPacks(order, packs, TextureFile(withoutBlock(texturePath)))
         IN  IF ~isNoFile(blob)
             THEN createTextureFromBlob(blob, texturePath, textures)
             ELSE IF startsWithBlock(texturePath) /\ ~isNoFile(altBlob)
             THEN createTextureFromBlob(altBlob, texturePath, textures)
             ELSE [texture |-> createMissingTexture, textures |-> textures]

\* The options of getMaterial: of a face of a block that is no liquid, and
\* of a face of water and of lava.
Plainly == [transparent |-> FALSE, isWater |-> FALSE, isLava |-> FALSE,
            faceDirection |-> ""]
LiquidOptions(water, direction) ==
    [transparent |-> FALSE, isWater |-> water, isLava |-> ~water,
     faceDirection |-> direction]

\* The texture a liquid's material is made of, by the direction of its face.
mutFinalTexturePath(texturePath, options) ==
    IF options.isWater
    THEN (IF options.faceDirection = "up" THEN "block/water_still"
          ELSE "block/water_flow")
    ELSE IF options.isLava
    THEN (IF options.faceDirection = "up" THEN "block/lava_still"
          ELSE "block/lava_flow")
    ELSE texturePath

finalTexturePath(texturePath, options) ==
    IF options.isWater
    THEN (IF options.faceDirection \in {"up", "down"} THEN "block/water_still"
          ELSE "block/water_flow")
    ELSE IF options.isLava
    THEN (IF options.faceDirection \in {"up", "down"} THEN "block/lava_still"
          ELSE "block/lava_flow")
    ELSE texturePath

\* getMaterial of a texture that is not animated, the tint left out: the
\* cached material, else a material over getTexture's texture, which it
\* caches under the path it was asked for, the transparency and, for a
\* liquid, the liquid and the direction of the face.
getMaterial(texturePath, options, textures, materials, order, packs) ==
    LET liquidKey == IF options.isWater \/ options.isLava
                     THEN ":liquid:" \o (IF options.isWater THEN "water" ELSE "lava")
                            \o ":" \o options.faceDirection
                     ELSE ""
        cacheKey == << texturePath, options.transparent, liquidKey >>
    IN  IF Has(materials, cacheKey)
        THEN [material |-> materials[cacheKey], textures |-> textures,
              materials |-> materials]
        ELSE LET t == getTexture(finalTexturePath(texturePath, options),
                                 textures, order, packs)
                 material == [map |-> t.texture]
             IN  [material |-> material, textures |-> t.textures,
                  materials |-> Put(materials, cacheKey, material)]

\* The caches of the asset loader, as the steps of getBlockMesh pass them on.
Caches(strings, states, models, textures, materials) ==
    [strings |-> strings, states |-> states, models |-> models,
     textures |-> textures, materials |-> materials]

\* The value of a set of one value.
Only(S) == CHOOSE v \in S : TRUE

\* A face of an element: its direction and its texture, which is a string or,
\* in a malformed model, a number.
Face(direction, texture) == [direction |-> direction, texture |-> texture, string |-> TRUE]
NumberFace(direction) == [direction |-> direction, texture |-> Lit(""), string |-> FALSE]

\* The elements of the model files: one with two faces, one whose second
\* face has a number for its texture, one without faces, null, and the cube
\* of createWaterloggedBlockMesh.
ElementKinds == {"whole", "numberface", "nofaces", "null"}
Element(kind) ==
    CASE kind = "whole" ->
           [null |-> FALSE, faces |-> << Face("up", Ref("all")), Face("north", Ref("all")) >>]
      [] kind = "numberface" ->
           [null |-> FALSE, faces |-> << Face("up", Ref("all")), NumberFace("north") >>]
      [] kind = "nofaces" -> [null |-> FALSE, faces |-> << >>]
      [] kind = "water" ->
           [null |-> FALSE,
            faces |-> << Face("down", Lit("block/water_still")),
                         Face("up", Lit("block/water_still")),
                         Face("north", Lit("block/water_flow")),
                         Face("south", Lit("block/water_flow")),
                         Face("west", Lit("block/water_flow")),
                         Face("east", Lit("block/water_flow")) >>]
      [] kind = "liquid" ->
           [null |-> FALSE,
            faces |-> << Face("down", Ref("bottom")), Face("up", Ref("top")),
                         Face("north", Ref("north")), Face("south", Ref("south")),
                         Face("west", Ref("west")), Face("east", Ref("east")) >>]
      [] kind = "null" -> [null |-> TRUE, faces |-> << >>]
      [] OTHER -> [null |-> FALSE, faces |-> << Face("up", Ref("all")) >>]

\* The text of an elements array, and the array of a text; an array the
\* model does not spell out is one element with one face "#all".
RECURSIVE JoinKinds(_)
JoinKinds(kinds) ==
    IF kinds = << >> THEN ""
    ELSE kinds[1] \o (IF Len(kinds) > 1 THEN "," ELSE "") \o JoinKinds(Tail(kinds))
Elements(kinds) == "elements[" \o JoinKinds(kinds) \o "]"
KindLists == SeqsUpTo(ElementKinds, MaxElements) \cup { << "water" >> }
elementsOf(text) ==
    IF \E kinds \in KindLists : text = Elements(kinds)
    THEN LET kinds == CHOOSE ks \in KindLists : text = Elements(ks)
         IN  [i \in DOMAIN kinds |-> Element(kinds[i])]
    ELSE IF \E water \in BOOLEAN, level \in 0..MaxLevel :
               text = Cuboid(actualHeight(water, level))
    THEN << Element("liquid") >>
    ELSE << Element("other") >>

\* isWaterBlock, isLavaBlock
isWaterBlock(block) == block.namespace = "minecraft" /\ block.name = "water"
isLavaBlock(block) == block.namespace = "minecraft" /\ block.name = "lava"

createPlaceholderCube ==
    [kind |-> "placeholder", faces |-> << >>, meshes |-> << >>, children |-> << >>]

\* getMaterialKey of a face without tintindex and cullface, in the default
\* biome.
getMaterialKey(texturePath, direction, block) ==
    [texturePath |-> texturePath, dir |-> direction, tint |-> "none",
     cull |-> "none", block |-> block.namespace \o ":" \o block.name,
     props |-> block.properties]

\* The PlaneGeometry of a face: its four vertices, named by the element, the
\* direction and the corner, and the indices of its two triangles.
PlaneGeometry(element, direction) ==
    [position |-> [corner \in 1..4 |-> << element, direction, corner >>],
     index |-> << 0, 2, 1, 2, 3, 1 >>]

\* manualMergeGeometries: the attributes in a row, each index moved by the
\* number of vertices before its geometry.
RECURSIVE mutManualMergeGeometries(_, _)
mutManualMergeGeometries(geometries, merged) ==
    IF geometries = << >> THEN merged
    ELSE mutManualMergeGeometries(Tail(geometries),
            [position |-> merged.position \o Head(geometries).position,
             index |-> merged.index \o Head(geometries).index])

RECURSIVE manualMergeGeometries(_, _)
manualMergeGeometries(geometries, merged) ==
    IF geometries = << >> THEN merged
    ELSE manualMergeGeometries(Tail(geometries),
            [position |-> merged.position \o Head(geometries).position,
             index |-> merged.index \o
                       [i \in DOMAIN Head(geometries).index |->
                          Head(geometries).index[i] + Len(merged.position)]])

\* mergeGeometries: of the geometries with vertices and indices.
EmptyGeometry == [position |-> << >>, index |-> << >>]
mergeGeometries(geometries) ==
    LET valid(geo) == Len(geo.position) > 0 /\ Len(geo.index) > 0
        validGeometries == SelectSeq(geometries, valid)
    IN  IF Len(validGeometries) = 0 THEN EmptyGeometry
        ELSE IF Len(validGeometries) = 1 THEN validGeometries[1]
        ELSE manualMergeGeometries(validGeometries, EmptyGeometry)

\* geometryGroups: a face joins the group of its material key, which the
\* first face of the key makes with its material; the groups with
\* vertices are the meshes of the block.
addToGroup(groups, face) ==
    LET geometry == PlaneGeometry(face.element, face.direction)
        has == \E g \in DOMAIN groups : groups[g].materialKey = face.materialKey
        made == IF has THEN groups
                ELSE Append(groups, [materialKey |-> face.materialKey,
                                     geometry |-> EmptyGeometry,
                                     material |-> face.material])
        at == CHOOSE g \in DOMAIN made : made[g].materialKey = face.materialKey
    IN  [made EXCEPT ![at].geometry =
            IF Len(@.position) > 0 THEN mergeGeometries(<< @, geometry >>)
            ELSE geometry]
RECURSIVE geometryGroups(_, _)
geometryGroups(faces, groups) ==
    IF faces = << >> THEN groups
    ELSE Only({ geometryGroups(Tail(faces), added) :
                added \in { addToGroup(groups, Head(faces)) } })
meshesOf(groups) ==
    LET drawn(group) == Len(group.geometry.position) > 0
    IN  SelectSeq(groups, drawn)

\* createFaceGeometry of a face whose texture is a string: the texture is
\* resolved, a liquid's block overrides it, the material is made.
createFaceGeometry(faceData, model, block, caches, order, packs) ==
    LET resolved == resolveTexture(faceData.texture, model).name
        texturePath ==
            IF isWaterBlock(block)
            THEN (IF faceData.direction = "up" THEN "block/water_still"
                  ELSE "block/water_flow")
            ELSE IF isLavaBlock(block)
            THEN (IF faceData.direction = "up" THEN "block/lava_still"
                  ELSE "block/lava_flow")
            ELSE resolved
    IN  Only({ [face |-> [direction |-> faceData.direction, material |-> m.material,
                          materialKey |-> getMaterialKey(texturePath,
                                              faceData.direction, block)],
                caches |-> [caches EXCEPT !.textures = m.textures,
                                          !.materials = m.materials]] :
               m \in { getMaterial(texturePath,
                                   IF isWaterBlock(block) \/ isLavaBlock(block)
                                   THEN LiquidOptions(isWaterBlock(block),
                                                      faceData.direction)
                                   ELSE Plainly,
                                   caches.textures,
                                   caches.materials, order, packs) } })

\* The loop of createElementGeometries over the faces: resolveTexture raises
\* on a texture that is no string, and the geometries made so far are lost.
RECURSIVE faceLoop(_, _, _, _, _, _, _)
faceLoop(faces, model, block, caches, order, packs, geometries) ==
    IF faces = << >>
    THEN [status |-> "ok", geometries |-> geometries, caches |-> caches]
    ELSE IF ~Head(faces).string
    THEN [status |-> "raise", geometries |-> << >>, caches |-> caches]
    ELSE Only({ faceLoop(Tail(faces), model, block, f.caches, order, packs,
                         Append(geometries, f.face)) :
                f \in { createFaceGeometry(Head(faces), model, block, caches,
                                           order, packs) } })

\* createElementGeometries: element.from of null raises.
createElementGeometries(element, model, block, caches, order, packs) ==
    IF element.null
    THEN [status |-> "raise", geometries |-> << >>, caches |-> caches]
    ELSE faceLoop(element.faces, model, block, caches, order, packs, << >>)

\* The loop of createBlockMeshNoWater over the elements, with its try and
\* catch around each element: the faces of the elements that did not raise.
RECURSIVE mutElementLoop(_, _, _, _, _, _, _, _)
mutElementLoop(elements, index, model, block, caches, order, packs, faces) ==
    IF index > Len(elements) THEN [faces |-> faces, caches |-> caches]
    ELSE Only({ IF g.status = "raise" THEN [faces |-> faces, caches |-> g.caches]
                ELSE mutElementLoop(elements, index + 1, model, block, g.caches,
                            order, packs,
                            faces \o [k \in DOMAIN g.geometries |->
                                        [element |-> index,
                                         direction |-> g.geometries[k].direction,
                                         material |-> g.geometries[k].material,
                                         materialKey |-> g.geometries[k].materialKey]]) :
                g \in { createElementGeometries(elements[index], model, block,
                                                caches, order, packs) } })

RECURSIVE elementLoop(_, _, _, _, _, _, _, _)
elementLoop(elements, index, model, block, caches, order, packs, faces) ==
    IF index > Len(elements) THEN [faces |-> faces, caches |-> caches]
    ELSE Only({ elementLoop(elements, index + 1, model, block, g.caches, order, packs,
                            IF g.status = "raise" THEN faces
                            ELSE faces \o [k \in DOMAIN g.geometries |->
                                             [element |-> index,
                                              direction |-> g.geometries[k].direction,
                                              material |-> g.geometries[k].material,
                                              materialKey |-> g.geometries[k].materialKey]]) :
                g \in { createElementGeometries(elements[index], model, block,
                                                caches, order, packs) } })

\* createBlockMeshNoWater: a placeholder cube for a model without elements
\* and for elements that give no geometry; else the group of the faces.
createBlockMeshNoWater(model, block, caches, order, packs) ==
    IF model.elements = "undefined"
    THEN [object |-> createPlaceholderCube, caches |-> caches]
    ELSE IF elementsOf(model.elements) = << >>
    THEN [object |-> createPlaceholderCube, caches |-> caches]
    ELSE Only({ [object |-> IF l.faces = << >> THEN createPlaceholderCube
                            ELSE [kind |-> "group", faces |-> l.faces,
                                  meshes |-> meshesOf(geometryGroups(l.faces, << >>)),
                                  children |-> << >>],
                 caches |-> l.caches] :
                l \in { elementLoop(elementsOf(model.elements), 1, model, block,
                                    caches, order, packs, << >>) } })

\* createWaterloggedBlockMesh: the block's mesh and a cube of water in one
\* group.
waterModel == Model("undefined", NoTextures, Elements(<< "water" >>), "undefined")
waterBlock == [namespace |-> "minecraft", name |-> "water", properties |-> << >>]
createWaterloggedBlockMesh(model, block, caches, order, packs) ==
    Only({ Only({ [object |-> [kind |-> "waterlogged", faces |-> << >>,
                               meshes |-> << >>,
                               children |-> << mainBlockMesh.object, waterMesh.object >>],
                   caches |-> waterMesh.caches] :
                  waterMesh \in { createBlockMeshNoWater(waterModel, waterBlock,
                                        mainBlockMesh.caches, order, packs) } }) :
           mainBlockMesh \in { createBlockMeshNoWater(model, block, caches,
                                                      order, packs) } })

\* createBlockMesh
createBlockMesh(model, block, caches, order, packs) ==
    IF HasProp(block.properties, "waterlogged")
       /\ PropValue(block.properties, "waterlogged") = "true"
    THEN createWaterloggedBlockMesh(model, block, caches, order, packs)
    ELSE createBlockMeshNoWater(model, block, caches, order, packs)

\* mapUVCoordinates writes faceData.uv = [0, 0, 16, 16] into every face
\* without a uv that createFaceGeometry is called for, before the texture
\* of the face is resolved: the model as createBlockMesh leaves it.
facesVisited(model) ==
    /\ model.elements # "undefined"
    /\ \E i \in DOMAIN elementsOf(model.elements) :
          /\ ~elementsOf(model.elements)[i].null
          /\ elementsOf(model.elements)[i].faces # << >>
defaultUV(model) == [model EXCEPT !.uv = @ \/ facesVisited(model)]

\* The model cache after createBlockMesh: the model getModel returned is
\* the object the cache holds under its key.
modelsAfterBuild(models, path, model) ==
    IF Has(models, stripMinecraft(path))
    THEN Put(models, stripMinecraft(path), defaultUV(model))
    ELSE models

\* The parts of a block mesh, one for each resolved model: getModel, then
\* createBlockMesh, then the block-state rotation.
RECURSIVE blockParts(_, _, _, _, _, _)
blockParts(modelDataList, block, caches, order, packs, parts) ==
    IF modelDataList = << >> THEN [parts |-> parts, caches |-> caches]
    ELSE Only({ Only({ blockParts(Tail(modelDataList), block,
                                  [b.caches EXCEPT !.models =
                                      modelsAfterBuild(@, Head(modelDataList).model,
                                                       g.model)],
                                  order, packs,
                                  Append(parts, [object |-> b.object,
                                                 x |-> Head(modelDataList).x,
                                                 y |-> Head(modelDataList).y])) :
                       b \in { createBlockMesh(g.model, block,
                                               [caches EXCEPT !.strings = g.strings,
                                                              !.models = g.models],
                                               order, packs) } }) :
                g \in { getModel(Head(modelDataList).model, caches.strings,
                                 caches.models, order, packs) } })

\* Cubane.createFallbackMesh: the wireframe cube in magenta.
mutCreateFallbackMesh == [fallback |-> FALSE, parts |-> << >>]

createFallbackMesh == [fallback |-> TRUE, parts |-> << >>]

-----------------------------------------------------------------------------
(* BlockMeshBuilder: the UV coordinates of a face, in sixteenths.           *)

\* The eight numbers of the four corners after the corners are permuted:
\* corner i takes the numbers of corner from[i].
Corners(uvCoords, from) ==
    [k \in 1..8 |-> uvCoords[2 * (from[(k + 1) \div 2] - 1) + (IF k % 2 = 1 THEN 1 ELSE 2)]]

\* applyUVRotation of the builder whose corners are TL, TR, BL, BR.
mutApplyUVRotation(uvCoords, rotation) ==
    CASE rotation = 90 -> Corners(uvCoords, << 3, 1, 4, 2 >>)
      [] rotation = 180 -> Corners(uvCoords, << 4, 3, 2, 1 >>)
      [] rotation = 270 -> Corners(uvCoords, << 3, 1, 4, 2 >>)
      [] OTHER -> uvCoords

applyUVRotation(uvCoords, rotation) ==
    CASE rotation = 90 -> Corners(uvCoords, << 3, 1, 4, 2 >>)
      [] rotation = 180 -> Corners(uvCoords, << 4, 3, 2, 1 >>)
      [] rotation = 270 -> Corners(uvCoords, << 2, 4, 1, 3 >>)
      [] OTHER -> uvCoords

\* applyUVRotation of the builder whose corners are BL, BR, TL, TR: the
\* eight assignments from the copy temp.
applyUVRotationFirst(uvCoords, rotation) ==
    LET temp == uvCoords IN
    CASE rotation = 90 ->
           << temp[5], temp[6], temp[1], temp[2], temp[7], temp[8], temp[3], temp[4] >>
      [] rotation = 180 ->
           << temp[7], temp[8], temp[5], temp[6], temp[3], temp[4], temp[1], temp[2] >>
      [] rotation = 270 ->
           << temp[3], temp[4], temp[7], temp[8], temp[1], temp[2], temp[5], temp[6] >>
      [] OTHER -> uvCoords

\* The corners of faceData.uv as mapUVCoordinates lays them out, and
\* getBaseUVs of the first builder.
baseUVs(uv) == << uv[1], 16 - uv[2], uv[3], 16 - uv[2], uv[1], 16 - uv[4], uv[3], 16 - uv[4] >>
getBaseUVs(uv) == << uv[1], 16 - uv[4], uv[3], 16 - uv[4], uv[1], 16 - uv[2], uv[3], 16 - uv[2] >>

\* The rotation of each direction in the first builder.
FACING_UV_ROT == 180

\* mapUVCoordinates: the corners of the face, rotated by faceData.rotation,
\* in the first builder by the direction's rotation too.
mapUVCoordinates(builder, uv, rotation) ==
    IF builder = "first"
    THEN applyUVRotationFirst(getBaseUVs(uv), (rotation + FACING_UV_ROT) % 360)
    ELSE applyUVRotation(baseUVs(uv), rotation)

Rotations == {0, 90, 180, 270}
Builders == {"first", "second"}
UVs == { uv \in {0, 8, 16} \X {0, 8, 16} \X {0, 8, 16} \X {0, 8, 16} :
           uv[1] < uv[3] /\ uv[2] < uv[4] }

\* A face's corners are laid out; they are rotated again and again.
InitUV ==
    /\ resourcePacks = EmptyMap
    /\ resourcePackOrder = << >>
    /\ loaded = << >>
    /\ now = 0
    /\ stringCache = EmptyMap
    /\ blockStateCache = EmptyMap
    /\ modelCache = EmptyMap
    /\ textureCache = EmptyMap
    /\ materialCache = EmptyMap
    /\ blockMeshCache = EmptyMap
    /\ entityMeshCache = EmptyMap
    /\ packCache = EmptyMap
    /\ merge = Idle
    /\ modelResolver = "types"
    /\ \E builder \in Builders, uv \in UVs, rotation \in Rotations :
          /\ call = [fn |-> "mapUVCoordinates", builder |-> builder,
                     base |-> mapUVCoordinates(builder, uv, rotation),
                     rotations |-> << >>]
          /\ ret = [uvCoords |-> mapUVCoordinates(builder, uv, rotation)]

ApplyUVRotation(rotation) ==
    /\ call.fn \in {"mapUVCoordinates", "applyUVRotation"}
    /\ Len(call.rotations) < MaxRotations
    /\ call' = [call EXCEPT !.fn = "applyUVRotation",
                            !.rotations = Append(@, rotation)]
    /\ ret' = [uvCoords |-> IF call.builder = "first"
                            THEN applyUVRotationFirst(ret.uvCoords, rotation)
                            ELSE applyUVRotation(ret.uvCoords, rotation)]
    /\ UNCHANGED << loaderVars, cacheVars, merge >>

NextUV == \E rotation \in Rotations : ApplyUVRotation(rotation)

SpecUV == InitUV /\ [][NextUV]_vars

-----------------------------------------------------------------------------
(* The library over its life: loads, dispose and lookups.                  *)

\* The bytes of an image file.
Png(bytes) == [json |-> FALSE, value |-> bytes]

\* What load() is given: a zip archive, or bytes JSZip rejects.
Blob(zip) == [readable |-> TRUE, zip |-> zip]
Corrupt == [readable |-> FALSE, zip |-> EmptyMap]

Stone == [namespace |-> "minecraft", name |-> "stone", properties |-> << >>]

\* A pack with stone over the chain m1 -> m2.
PackA ==
    [f \in {StoneFile, ModelFile("block/m1"), ModelFile("block/m2"),
            TextureFile("block/texture1"), TextureFile("block/broken")} |->
        CASE f = StoneFile ->
               Json(BlockState(TRUE, << [key |-> << >>,
                                         value |-> Single(Plain("block/m1"))] >>,
                               FALSE, << >>))
          [] f = ModelFile("block/m1") ->
               Json(Model("block/m2", Textures([k \in {"all"} |-> Lit("block/texture1")]),
                          "undefined", "undefined"))
          [] f = ModelFile("block/m2") ->
               Json(Model("undefined", NoTextures, "elements2", "undefined"))
          [] f = TextureFile("block/texture1") -> Png("A1")
          [] OTHER -> Png(NotAnImage)]

\* A pack that overrides stone, m2 and a texture, and moves another.
PackB ==
    [f \in {StoneFile, ModelFile("block/m2"), TextureFile("block/texture1"),
            TextureFile("moved")} |->
        CASE f = StoneFile ->
               Json(BlockState(TRUE, << [key |-> << >>,
                                         value |-> Single(Plain("minecraft:block/m2"))] >>,
                               FALSE, << >>))
          [] f = ModelFile("block/m2") ->
               Json(Model("undefined", Textures([k \in {"all"} |-> Lit("block/moved")]),
                          "elements2b", "undefined"))
          [] f = TextureFile("block/texture1") -> Png("B1")
          [] OTHER -> Png("B2")]

Blobs == {Blob(PackA), Blob(PackB), Corrupt}
Resolvers == {"types", "EntityRenderer"}
LookupFiles == {StoneFile, ModelFile("block/absent")}
LookupModels == {"block/m1"}
LookupTextures == {"block/texture1", "block/broken"}

\* After construction: no pack, empty caches.
Init ==
    /\ resourcePacks = EmptyMap
    /\ resourcePackOrder = << >>
    /\ loaded = << >>
    /\ now = 0
    /\ stringCache = EmptyMap
    /\ blockStateCache = EmptyMap
    /\ modelCache = EmptyMap
    /\ textureCache = EmptyMap
    /\ materialCache = EmptyMap
    /\ blockMeshCache = EmptyMap
    /\ entityMeshCache = EmptyMap
    /\ packCache = EmptyMap
    /\ call = NoCall
    /\ ret = NoCall
    /\ merge = Idle
    /\ modelResolver \in Resolvers

\* Cubane.loadResourcePack(blob), called when the clock has advanced by
\* elapsed milliseconds: AssetLoader.loadResourcePack, then clearMeshCaches.
\* A blob JSZip rejects makes both raise, nothing changed.
mutLoadResourcePack(blob, elapsed) ==
    /\ Len(resourcePackOrder) < MaxLoads
    /\ now + elapsed <= MaxClock
    /\ now' = now + elapsed
    /\ call' = [fn |-> "loadResourcePack", blob |-> blob]
    /\ IF ~blob.readable
       THEN /\ ret' = [status |-> "raise"]
            /\ UNCHANGED << resourcePacks, resourcePackOrder, loaded >>
       ELSE /\ ret' = [status |-> "ok"]
            /\ resourcePacks' = Put(resourcePacks, now', blob.zip)
            /\ resourcePackOrder' = << now' >> \o resourcePackOrder
            /\ loaded' = << blob.zip >> \o loaded
    /\ blockMeshCache' = EmptyMap
    /\ entityMeshCache' = EmptyMap
    /\ UNCHANGED << modelResolver, stringCache, blockStateCache, modelCache,
                    textureCache, materialCache, merge, packCache >>

LoadResourcePack(blob, elapsed) ==
    /\ Len(resourcePackOrder) < MaxLoads
    /\ now + elapsed <= MaxClock
    /\ now' = now + elapsed
    /\ call' = [fn |-> "loadResourcePack", blob |-> blob]
    /\ IF ~blob.readable
       THEN /\ ret' = [status |-> "raise"]
            /\ UNCHANGED << resourcePacks, resourcePackOrder, loaded,
                            blockMeshCache, entityMeshCache >>
       ELSE /\ ret' = [status |-> "ok"]
            /\ resourcePacks' = Put(resourcePacks, now', blob.zip)
            /\ resourcePackOrder' = << now' >> \o resourcePackOrder
            /\ loaded' = << blob.zip >> \o loaded
            /\ blockMeshCache' = EmptyMap
            /\ entityMeshCache' = EmptyMap
    /\ UNCHANGED << modelResolver, stringCache, blockStateCache, modelCache,
                    textureCache, materialCache, merge, packCache >>

\* Cubane.dispose: AssetLoader.dispose, then clearMeshCaches.
Dispose ==
    /\ call' = [fn |-> "dispose"]
    /\ ret' = [status |-> "ok"]
    /\ textureCache' = EmptyMap
    /\ materialCache' = EmptyMap
    /\ blockStateCache' = EmptyMap
    /\ modelCache' = EmptyMap
    /\ stringCache' = EmptyMap
    /\ resourcePacks' = EmptyMap
    /\ resourcePackOrder' = << >>
    /\ loaded' = << >>
    /\ blockMeshCache' = EmptyMap
    /\ entityMeshCache' = EmptyMap
    /\ UNCHANGED << now, modelResolver, merge, packCache >>

GetResourceString(file) ==
    LET r == getResourceString(stringCache, resourcePackOrder, resourcePacks, file)
    IN  /\ call' = [fn |-> "getResourceString", file |-> file]
        /\ ret' = r.text
        /\ stringCache' = r.cache
        /\ UNCHANGED << loaderVars, blockStateCache, modelCache, textureCache,
                        materialCache, blockMeshCache, entityMeshCache, merge >>

GetBlockState(blockId) ==
    LET s == getBlockState(blockId)
    IN  /\ call' = [fn |-> "getBlockState", blockId |-> blockId]
        /\ ret' = s.def
        /\ stringCache' = s.strings
        /\ blockStateCache' = s.states
        /\ UNCHANGED << loaderVars, modelCache, textureCache, materialCache,
                        blockMeshCache, entityMeshCache, merge >>

GetTexture(texturePath) ==
    LET t == getTexture(texturePath, textureCache, resourcePackOrder,
                        resourcePacks)
    IN  /\ call' = [fn |-> "getTexture", texturePath |-> texturePath]
        /\ ret' = t.texture
        /\ textureCache' = t.textures
        /\ UNCHANGED << loaderVars, stringCache, blockStateCache, modelCache,
                        materialCache, blockMeshCache, entityMeshCache, merge >>

\* Cubane.getBlockMesh of a block that is no entity: the cached mesh; else
\* the parts of the resolved models, or the fallback mesh when there is no
\* part or the resolution raised; the mesh is cached.
GetBlockMesh(block) ==
    /\ call' = [fn |-> "getBlockMesh", block |-> block]
    /\ IF Has(blockMeshCache, block)
       THEN /\ ret' = blockMeshCache[block]
            /\ UNCHANGED cacheVars
       ELSE \E s \in { getBlockState(stripMinecraft(block.name)) } :
            \E resolved \in { IF modelResolver = "types"
                              THEN resolveBlockModelTypes(block, s.def)
                              ELSE resolveBlockModel(block, s.def) } :
            \E built \in { blockParts(resolved.models, block,
                                      Caches(s.strings, s.states, modelCache,
                                             textureCache, materialCache),
                                      resourcePackOrder, resourcePacks, << >>) } :
            \E mesh \in { IF built.parts = << >> THEN createFallbackMesh
                          ELSE [fallback |-> FALSE, parts |-> built.parts] } :
                /\ ret' = mesh
                /\ stringCache' = built.caches.strings
                /\ blockStateCache' = built.caches.states
                /\ modelCache' = built.caches.models
                /\ textureCache' = built.caches.textures
                /\ materialCache' = built.caches.materials
                /\ blockMeshCache' = Put(blockMeshCache, block, mesh)
                /\ UNCHANGED entityMeshCache
    /\ UNCHANGED << loaderVars, merge >>

\* The identifiers whose mesh is built while no pack is loaded.
MeshNames == {"stone", "oak_log", "water", "lava"}
MeshBlocks ==
    { [namespace |-> "minecraft", name |-> n, properties |-> ps] :
        n \in MeshNames, ps \in PropLists }

\* No pack is ever loaded: meshes are built, the library is disposed of.
NextNoPack ==
    \/ \E block \in MeshBlocks :
          DOMAIN blockMeshCache \subseteq {block} /\ GetBlockMesh(block)
    \/ Dispose

SpecNoPack == Init /\ [][NextNoPack]_vars

\* A pack whose stone is one model with the given elements.
ElementsPack(kinds) ==
    [f \in {StoneFile, ModelFile("block/m1"), TextureFile("block/texture1")} |->
        CASE f = StoneFile ->
               Json(BlockState(TRUE, << [key |-> << >>,
                                         value |-> Single(Plain("block/m1"))] >>,
                               FALSE, << >>))
          [] f = ModelFile("block/m1") ->
               Json(Model("undefined",
                          Textures([k \in {"all"} |-> Lit("block/texture1")]),
                          Elements(kinds), "undefined"))
          [] OTHER -> Png("A1")]

InitElements ==
    /\ \E kinds \in SeqsUpTo(ElementKinds, MaxElements) :
          /\ resourcePacks = Put(EmptyMap, 0, ElementsPack(kinds))
          /\ loaded = << ElementsPack(kinds) >>
    /\ resourcePackOrder = << 0 >>
    /\ now = 0
    /\ stringCache = EmptyMap
    /\ blockStateCache = EmptyMap
    /\ modelCache = EmptyMap
    /\ textureCache = EmptyMap
    /\ materialCache = EmptyMap
    /\ blockMeshCache = EmptyMap
    /\ entityMeshCache = EmptyMap
    /\ packCache = EmptyMap
    /\ call = NoCall
    /\ ret = NoCall
    /\ merge = Idle
    /\ modelResolver \in Resolvers

\* The mesh of stone is built, with and without water around it.
NextElements ==
    \E block \in {Stone, [Stone EXCEPT !.properties = << << "waterlogged", "true" >> >>]} :
        DOMAIN blockMeshCache \subseteq {block} /\ GetBlockMesh(block)

SpecElements == InitElements /\ [][NextElements]_vars

\* A pack with water, lava and stone: the four textures of the liquids, and
\* for each liquid no model file or one whose faces name other textures.
LiquidModelFiles == { << >>, << "water" >>, << "whole" >>, << "numberface", "whole" >> }
Variant(modelPath) ==
    Json(BlockState(TRUE, << [key |-> << >>, value |-> Single(Plain(modelPath))] >>,
                    FALSE, << >>))
LiquidsPack(waterKinds, lavaKinds) ==
    [f \in {StoneFile, BlockStateFile("water"), BlockStateFile("lava"),
            ModelFile("block/m1"), TextureFile("block/texture1"),
            TextureFile("block/water_still"), TextureFile("block/water_flow"),
            TextureFile("block/lava_still"), TextureFile("block/lava_flow")}
           \cup (IF waterKinds = << >> THEN {} ELSE {ModelFile("block/water")})
           \cup (IF lavaKinds = << >> THEN {} ELSE {ModelFile("block/lava")}) |->
        CASE f = StoneFile -> Variant("block/m1")
          [] f = BlockStateFile("water") -> Variant("block/water")
          [] f = BlockStateFile("lava") -> Variant("minecraft:block/lava")
          [] f = ModelFile("block/m1") ->
               Json(Model("undefined",
                          Textures([k \in {"all"} |-> Lit("block/texture1")]),
                          Elements(<< "whole" >>), "undefined"))
          [] f = ModelFile("block/water") ->
               Json(Model("undefined",
                          Textures([k \in {"all"} |-> Lit("block/texture1")]),
                          Elements(waterKinds), "undefined"))
          [] f = ModelFile("block/lava") ->
               Json(Model("undefined",
                          Textures([k \in {"all"} |-> Lit("block/texture1")]),
                          Elements(lavaKinds), "undefined"))
          [] f = TextureFile("block/texture1") -> Png("A1")
          [] f = TextureFile("block/water_still") -> Png("water still")
          [] f = TextureFile("block/water_flow") -> Png("water flow")
          [] f = TextureFile("block/lava_still") -> Png("lava still")
          [] OTHER -> Png("lava flow")]

InitFaces ==
    /\ \E waterKinds \in LiquidModelFiles, lavaKinds \in LiquidModelFiles :
          /\ resourcePacks = Put(EmptyMap, 0, LiquidsPack(waterKinds, lavaKinds))
          /\ loaded = << LiquidsPack(waterKinds, lavaKinds) >>
    /\ resourcePackOrder = << 0 >>
    /\ now = 0
    /\ stringCache = EmptyMap
    /\ blockStateCache = EmptyMap
    /\ modelCache = EmptyMap
    /\ textureCache = EmptyMap
    /\ materialCache = EmptyMap
    /\ blockMeshCache = EmptyMap
    /\ entityMeshCache = EmptyMap
    /\ packCache = EmptyMap
    /\ call = NoCall
    /\ ret = NoCall
    /\ merge = Idle
    /\ modelResolver \in Resolvers

\* The meshes of water, of lava and of stone under water are built.
FaceBlocks ==
    { [Stone EXCEPT !.name = "water"], [Stone EXCEPT !.name = "lava"],
      [Stone EXCEPT !.properties = << << "waterlogged", "true" >> >>] }
NextFaces == \E block \in FaceBlocks : GetBlockMesh(block)

SpecFaces == InitFaces /\ [][NextFaces]_vars

\* The mesh of stone is built and the model of stone is asked for.
NextBuild ==
    \/ DOMAIN blockMeshCache = {} /\ GetBlockMesh(Stone)
    \/ GetModelStart("block/m1")

SpecBuild == InitElements /\ [][NextBuild]_vars

Next ==
    \/ \E blob \in Blobs, elapsed \in 0..1 : LoadResourcePack(blob, elapsed)
    \/ Dispose
    \/ \E file \in LookupFiles : GetResourceString(file)
    \/ GetBlockState("minecraft:stone")
    \/ \E modelPath \in LookupModels : GetModelStart(modelPath)
    \/ MergeIterate
    \/ MergeFinish
    \/ \E texturePath \in LookupTextures : GetTexture(texturePath)
    \/ GetBlockMesh(Stone)

Spec == Init /\ [][Next]_vars

-----------------------------------------------------------------------------
(* TintManager, and AssetLoader.getTint.                                    *)

\* new THREE.Color(r, g, b), the components as fractions of one denominator.
Color(r, g, b, over) == [r |-> r, g |-> g, b |-> b, over |-> over]

\* tintableBlocks as the constructor fills it, and getTintType.
tintableBlocks ==
    [id \in {"minecraft:redstone_wire", "minecraft:grass_block",
             "minecraft:oak_leaves", "minecraft:birch_leaves", "minecraft:water",
             "minecraft:flowing_water", "minecraft:pumpkin_stem",
             "minecraft:melon_stem"} |->
        CASE id = "minecraft:redstone_wire" -> "redstone"
          [] id \in {"minecraft:grass_block", "minecraft:oak_leaves",
                     "minecraft:birch_leaves"} -> "foliage"
          [] id \in {"minecraft:water", "minecraft:flowing_water"} -> "water"
          [] OTHER -> "stem"]
getTintType(blockId) ==
    IF Has(tintableBlocks, blockId) THEN tintableBlocks[blockId] ELSE "null"

\* parseInt(s, 10) of the decimal numerals up to 15; NaN is not reached.
parseInt(s) == CHOOSE n \in 0..15 : ToString(n) = s

\* 0.3 + (powerLevel / 15) * 0.7, in 150ths.
getRedstoneTint(power) == Color(45 + 7 * parseInt(power), 0, 0, 150)

\* blockId.includes("birch")
includesBirch(blockId) == blockId = "minecraft:birch_leaves"

mutGetFoliageTint(blockId, position) ==
    IF position = "desert" THEN Color(9, 8, 3, 10)
    ELSE IF includesBirch(blockId) THEN Color(80, 90, 45, 100)
    ELSE Color(4, 7, 2, 10)

getFoliageTint(blockId, position) ==
    IF includesBirch(blockId) THEN Color(80, 90, 45, 100)
    ELSE Color(4, 7, 2, 10)

getWaterTint(position) == Color(2, 3, 9, 10)

\* red 0.2 + (ageLevel / 7) * 0.6 and green 0.8 - (ageLevel / 7) * 0.6, in
\* 70ths.
getStemTint(age) == Color(14 + 6 * parseInt(age), 56 - 6 * parseInt(age), 0, 70)

\* TintManager.getTint(blockId, properties, position)
getTint(blockId, properties, position) ==
    CASE getTintType(blockId) = "redstone" ->
           getRedstoneTint(IF HasProp(properties, "power")
                           THEN PropValue(properties, "power") ELSE "0")
      [] getTintType(blockId) = "foliage" -> getFoliageTint(blockId, position)
      [] getTintType(blockId) = "water" -> getWaterTint(position)
      [] getTintType(blockId) = "stem" ->
           getStemTint(IF HasProp(properties, "age")
                       THEN PropValue(properties, "age") ELSE "0")
      [] OTHER -> Color(1, 1, 1, 1)

\* AssetLoader.getTint(blockId, properties, biome, position): the biome is
\* handed to TintManager.getTint in the place of the position, and the
\* position after it, where no parameter takes it.
getTintOfLoader(blockId, properties, biome, position) ==
    getTint(blockId, properties, biome)

Biomes == {"plains", "desert", "swamp"}
TintBlocks == (DOMAIN tintableBlocks) \cup {"minecraft:stone"}
TintProperties ==
    { << >> } \cup { << << "power", ToString(n) >> >> : n \in {0, 8, 15} }
              \cup { << << "age", ToString(n) >> >> : n \in {0, 3, 7} }

GetTint(blockId, properties, biome) ==
    /\ call' = [fn |-> "getTint", blockId |-> blockId, properties |-> properties,
                biome |-> biome]
    /\ ret' = [color |-> getTintOfLoader(blockId, properties, biome, "undefined")]
    /\ UNCHANGED << loaderVars, cacheVars, merge >>

NextTint ==
    \E blockId \in TintBlocks, properties \in TintProperties, biome \in Biomes :
        GetTint(blockId, properties, biome)

SpecTint == Init /\ [][NextTint]_vars

\* getBlockMesh from the miss in blockMeshCache to the mesh: the block
\* state, the models the resolver gives, the parts; the fallback mesh when
\* there is no part.
blockMeshOf(block, resolver, caches, order, packs) ==
    Only({ Only({ Only({ [mesh |-> IF built.parts = << >> THEN createFallbackMesh
                                   ELSE [fallback |-> FALSE, parts |-> built.parts],
                          caches |-> built.caches] :
                         built \in { blockParts(resolved.models, block,
                                                [caches EXCEPT !.strings = s.strings,
                                                               !.states = s.states],
                                                order, packs, << >>) } }) :
                  resolved \in { IF resolver = "types"
                                 THEN resolveBlockModelTypes(block, s.def)
                                 ELSE resolveBlockModel(block, s.def) } }) :
           s \in { getBlockStateIn(stripMinecraft(block.name), caches.strings,
                                   caches.states, order, packs) } })

\* getBlockMesh misses the cache and is suspended where it awaits the
\* models of the block.
BlockMeshBegin(block) ==
    /\ merge.pc = "idle"
    /\ ~Has(blockMeshCache, block)
    /\ merge' = [pc |-> "getBlockMesh", block |-> block, built |-> FALSE,
                 mesh |-> createFallbackMesh]
    /\ call' = [fn |-> "getBlockMesh:await", block |-> block]
    /\ ret' = NoCall
    /\ UNCHANGED << loaderVars, cacheVars >>

\* The suspended getBlockMesh resolves the block and builds the parts from
\* the archives as they are, and is suspended again before it caches.
BlockMeshBuild ==
    /\ merge.pc = "getBlockMesh"
    /\ ~merge.built
    /\ \E b \in { blockMeshOf(merge.block, modelResolver,
                              Caches(stringCache, blockStateCache, modelCache,
                                     textureCache, materialCache),
                              resourcePackOrder, resourcePacks) } :
          /\ merge' = [merge EXCEPT !.built = TRUE, !.mesh = b.mesh]
          /\ stringCache' = b.caches.strings
          /\ blockStateCache' = b.caches.states
          /\ modelCache' = b.caches.models
          /\ textureCache' = b.caches.textures
          /\ materialCache' = b.caches.materials
    /\ call' = [fn |-> "getBlockMesh:await", block |-> merge.block]
    /\ ret' = NoCall
    /\ UNCHANGED << loaderVars, blockMeshCache, entityMeshCache >>

\* The suspended getBlockMesh caches its mesh and returns it.
BlockMeshFinish ==
    /\ merge.pc = "getBlockMesh"
    /\ merge.built
    /\ blockMeshCache' = Put(blockMeshCache, merge.block, merge.mesh)
    /\ call' = [fn |-> "getBlockMesh", block |-> merge.block]
    /\ ret' = merge.mesh
    /\ merge' = Idle
    /\ UNCHANGED << loaderVars, stringCache, blockStateCache, modelCache,
                    textureCache, materialCache, entityMeshCache >>

\* Packs are loaded while a getBlockMesh of stone is under way.
NextSuspend ==
    \/ \E blob \in Blobs, elapsed \in 0..1 : LoadResourcePack(blob, elapsed)
    \/ BlockMeshBegin(Stone)
    \/ BlockMeshBuild
    \/ BlockMeshFinish

SpecSuspend == Init /\ [][NextSuspend]_vars

\* What the cache of packs holds under packId: nothing without a database,
\* nothing when the entry is older than expirationTime (0: none given).
NoBlob == [found |-> FALSE, blob |-> Corrupt]
getResourcePackFromCache(store, packId, expirationTime, db, time) ==
    IF ~db THEN NoBlob
    ELSE IF ~Has(store, packId) THEN NoBlob
    ELSE IF expirationTime # 0 /\ time - store[packId].timestamp > expirationTime
    THEN NoBlob
    ELSE [found |-> TRUE, blob |-> store[packId].blob]

storeResourcePack(store, packId, blob, db, time) ==
    IF ~db THEN store
    ELSE Put(store, packId, [blob |-> blob, timestamp |-> time])

\* The entries whose timestamp is at most Date.now() - expirationTime go.
cleanupExpiredResourcePacks(store, expirationTime, db, time) ==
    IF ~db THEN store
    ELSE [id \in { i \in DOMAIN store :
                      store[i].timestamp > time - expirationTime } |-> store[id]]

\* The store once loadResourcePack has kept the blob its loader gave.
stored(store, packId, blob, useCache, expirationTime, db, time) ==
    IF useCache
    THEN Only({ IF expirationTime # 0
                THEN cleanupExpiredResourcePacks(kept, expirationTime, db, time)
                ELSE kept :
                kept \in { storeResourcePack(store, packId, blob, db, time) } })
    ELSE store

\* AssetLoader.loadResourcePack(blob) then clearMeshCaches, inside
\* Cubane.loadResourcePack(options, loader) and loadCachedPack.
loadBlob(blob, time) ==
    IF ~blob.readable
    THEN UNCHANGED << resourcePacks, resourcePackOrder, loaded, blockMeshCache,
                      entityMeshCache >>
    ELSE /\ resourcePacks' = Put(resourcePacks, time, blob.zip)
         /\ resourcePackOrder' = << time >> \o resourcePackOrder
         /\ loaded' = << blob.zip >> \o loaded
         /\ blockMeshCache' = EmptyMap
         /\ entityMeshCache' = EmptyMap

PackIds == {"pack_a", "pack_b"}
Expirations == {0, 1}
Loaders == {[given |-> FALSE, blob |-> Corrupt]}
               \cup { [given |-> TRUE, blob |-> blob] : blob \in Blobs }

\* Cubane.loadResourcePack(options, loader), called when the clock has
\* advanced by elapsed milliseconds; db: the browser gives a database.
LoadResourcePackOptions(packId, useCache, forceReload, cacheExpiration, loader, db, elapsed) ==
    /\ Len(resourcePackOrder) < MaxLoads
    /\ now + elapsed <= MaxClock
    /\ now' = now + elapsed
    /\ call' = [fn |-> "loadResourcePack:options", packId |-> packId,
                useCache |-> useCache, loader |-> loader]
    /\ \E cached \in { IF useCache /\ ~forceReload
                       THEN getResourcePackFromCache(packCache, packId,
                                                     cacheExpiration, db, now')
                       ELSE NoBlob } :
          IF cached.found
          THEN /\ loadBlob(cached.blob, now')
               /\ ret' = [status |-> IF cached.blob.readable THEN "ok" ELSE "raise",
                          fromCache |-> TRUE]
               /\ UNCHANGED packCache
          ELSE IF ~loader.given
          THEN /\ ret' = [status |-> "raise", fromCache |-> FALSE]
               /\ UNCHANGED << resourcePacks, resourcePackOrder, loaded,
                               blockMeshCache, entityMeshCache, packCache >>
          ELSE /\ packCache' = stored(packCache, packId, loader.blob, useCache,
                                      cacheExpiration, db, now')
               /\ loadBlob(loader.blob, now')
               /\ ret' = [status |-> IF loader.blob.readable THEN "ok" ELSE "raise",
                          fromCache |-> FALSE]
    /\ UNCHANGED << modelResolver, stringCache, blockStateCache, modelCache,
                    textureCache, materialCache, merge >>

\* Cubane.loadCachedPack(packId): false when the cache has no such pack or
\* the pack does not load.
LoadCachedPack(packId, db, elapsed) ==
    /\ Len(resourcePackOrder) < MaxLoads
    /\ now + elapsed <= MaxClock
    /\ now' = now + elapsed
    /\ call' = [fn |-> "loadCachedPack", packId |-> packId]
    /\ \E cached \in { getResourcePackFromCache(packCache, packId, 0, db, now') } :
          IF ~cached.found
          THEN /\ ret' = [status |-> "ok", value |-> FALSE]
               /\ UNCHANGED << resourcePacks, resourcePackOrder, loaded,
                               blockMeshCache, entityMeshCache >>
          ELSE /\ loadBlob(cached.blob, now')
               /\ ret' = [status |-> "ok", value |-> cached.blob.readable]
    /\ UNCHANGED << modelResolver, stringCache, blockStateCache, modelCache,
                    textureCache, materialCache, merge, packCache >>

NextPersist ==
    \/ \E packId \in PackIds, useCache, forceReload, db \in BOOLEAN,
          cacheExpiration \in Expirations, loader \in Loaders, elapsed \in 0..1 :
          LoadResourcePackOptions(packId, useCache, forceReload,
                                  cacheExpiration, loader, db, elapsed)
    \/ \E packId \in PackIds, db \in BOOLEAN, elapsed \in 0..1 :
          LoadCachedPack(packId, db, elapsed)

SpecPersist == Init /\ [][NextPersist]_vars

\* A first archive in which the block state of stone and the model m2 are
\* each absent or not JSON.
MissKinds == {"absent", "garbage"}
MissZip(state, model) ==
    [f \in (IF state = "absent" THEN {} ELSE {StoneFile}) \cup
           (IF model = "absent" THEN {} ELSE {ModelFile("block/m2")}) |-> Garbage]
MissFiles == {StoneFile, ModelFile("block/m2")}
GoodBlobs == {Blob(PackA), Blob(PackB)}

InitMiss ==
    /\ \E state \in MissKinds, model \in MissKinds :
          /\ resourcePacks = Put(EmptyMap, 0, MissZip(state, model))
          /\ loaded = << MissZip(state, model) >>
    /\ resourcePackOrder = << 0 >>
    /\ now = 0
    /\ stringCache = EmptyMap
    /\ blockStateCache = EmptyMap
    /\ modelCache = EmptyMap
    /\ textureCache = EmptyMap
    /\ materialCache = EmptyMap
    /\ blockMeshCache = EmptyMap
    /\ entityMeshCache = EmptyMap
    /\ packCache = EmptyMap
    /\ call = NoCall
    /\ ret = NoCall
    /\ merge = Idle
    /\ modelResolver = "types"

\* The lookup that completed last found nothing.
Missed ==
    \/ call.fn = "getResourceString" /\ isNoFile(ret)
    \/ call.fn = "getBlockState" /\ ret = EmptyDefinition
    \/ call.fn = "getModel" /\ ret = EmptyModel
Asking == call.fn \in {"none", "loadResourcePack"}

\* A lookup, an archive with well-formed files once the lookup has found
\* nothing, a lookup again; a text is asked for when no other lookup has
\* read it.
NextMiss ==
    \/ \E file \in MissFiles :
          Asking /\ ~Has(stringCache, file) /\ GetResourceString(file)
    \/ Asking /\ GetBlockState("minecraft:stone")
    \/ Asking /\ GetModelStart("block/m2")
    \/ \E blob \in GoodBlobs, elapsed \in 0..1 :
          Missed /\ LoadResourcePack(blob, elapsed)

SpecMiss == InitMiss /\ [][NextMiss]_vars

\* The corners of faces are laid out, one face after the other.
Directions == {"down", "up", "north", "south", "west", "east"}
MapUVCoordinates(builder, direction, uv, rotation) ==
    /\ call' = [fn |-> "mapUVCoordinates", builder |-> builder,
                direction |-> direction, uv |-> uv, rotation |-> rotation]
    /\ ret' = [uvCoords |-> mapUVCoordinates(builder, uv, rotation)]
    /\ UNCHANGED << loaderVars, cacheVars, merge >>

NextMapUV ==
    \E builder \in Builders, direction \in Directions, uv \in UVs,
       rotation \in Rotations :
        MapUVCoordinates(builder, direction, uv, rotation)

SpecMapUV == Init /\ [][NextMapUV]_vars

-----------------------------------------------------------------------------
(* AssetLoader: requests in flight together. A request runs from one await  *)
(* to the next in one step; its local variables are its own.                *)

\* A request: the method, its argument, where it stands (start; read: the
\* file's text is being read from the archive; got: getResourceString has
\* returned to it; done), and its local variables.
Request(fn, key) ==
    [fn |-> fn, key |-> key, pc |-> "start", file |-> "", text |-> NoFile,
     phase |-> "first", m |-> Idle, result |-> NoCall, raced |-> FALSE]

\* getResourceString up to its await: a cached text and a file no pack
\* holds are returned at once, else the file of the first pack is read.
startRead(req, file, strings, order, packs) ==
    IF Has(strings, file)
    THEN [req EXCEPT !.pc = "got", !.file = file, !.text = strings[file]]
    ELSE IF isNoFile(scanPacks(order, packs, file))
    THEN [req EXCEPT !.pc = "got", !.file = file, !.text = NoFile]
    ELSE [req EXCEPT !.pc = "read", !.file = file,
                     !.text = scanPacks(order, packs, file)]

Finished(req, result) == [req EXCEPT !.pc = "done", !.result = result]

\* History: the request computed a value another request had cached
\* since it began.
noteRace(req, hit) == [req EXCEPT !.raced = @ \/ hit]

\* The model cache while loadAndMergeModel is awaited: getModel caches the
\* model after the merge only.
mutModelCacheAtMerge(models, key, model) == Put(models, key, model)

modelCacheAtMerge(models, key, model) == models

\* The head of the loop of loadAndMergeModel: the next parent is asked
\* for, or the loop is left and getModel caches and returns the model.
loopHead(req, strings, models, order, packs) ==
    IF loopGuard(req.m)
    THEN IF req.m.parentPath = NotAString
         THEN [req |-> Finished(req, EmptyModel), models |-> models]
         ELSE [req |-> startRead([req EXCEPT !.phase = "loop"],
                                 ModelFile(stripMinecraft(req.m.parentPath)),
                                 strings, order, packs),
               models |-> models]
    ELSE LET final == [req.m.currentModel EXCEPT !.parent = "undefined"]
         IN  [req |-> Finished(req, final), models |-> Put(models, req.m.key, final)]

\* A request that has not started: the cache is asked, then the file.
beginRequest(req, strings, states, models, order, packs) ==
    CASE req.fn = "getResourceString" ->
           LET r == startRead(req, req.key, strings, order, packs)
           IN  IF r.pc = "got" THEN Finished(r, r.text) ELSE r
      [] req.fn = "getBlockState" ->
           LET blockId == stripMinecraft(req.key)
           IN  IF Has(states, blockId) THEN Finished(req, states[blockId])
               ELSE startRead(req, BlockStateFile(blockId), strings, order, packs)
      [] OTHER ->
           LET modelPath == stripMinecraft(req.key)
           IN  IF Has(models, modelPath) THEN Finished(req, models[modelPath])
               ELSE startRead(req, ModelFile(modelPath), strings, order, packs)

\* The read of a file completes: stringCache.set, and the text is returned.
readDone(req) ==
    IF req.fn = "getResourceString" THEN Finished(req, req.text)
    ELSE [req EXCEPT !.pc = "got"]

\* getBlockState and getModel go on with the text getResourceString
\* returned; the request and the caches they leave.
resumeRequest(req, strings, states, models, order, packs) ==
    LET parsed == JSONparse(req.text)
        failed == isNoFile(req.text) \/ parsed.status = "raise"
    IN  IF req.fn = "getBlockState"
        THEN IF failed
             THEN [req |-> Finished(req, EmptyDefinition), states |-> states,
                   models |-> models]
             ELSE [req |-> Finished(req, parsed.value),
                   states |-> Put(states, stripMinecraft(req.key), parsed.value),
                   models |-> models]
        ELSE IF req.phase = "first"
        THEN IF failed
             THEN [req |-> Finished(req, EmptyModel), states |-> states,
                   models |-> models]
             ELSE IF parsed.value.parent = "undefined"
             THEN [req |-> Finished(req, parsed.value), states |-> states,
                   models |-> Put(models, stripMinecraft(req.key), parsed.value)]
             ELSE LET key == stripMinecraft(req.key)
                      h == loopHead([req EXCEPT !.m = [Idle EXCEPT
                                           !.pc = "loop", !.key = key,
                                           !.currentModel = parsed.value,
                                           !.parentPath = parsed.value.parent]],
                                    strings,
                                    modelCacheAtMerge(models, key, parsed.value),
                                    order, packs)
                  IN  [req |-> h.req, states |-> states, models |-> h.models]
        ELSE LET merged ==
                     IF failed THEN [req.m EXCEPT !.parentPath = ""]
                     ELSE [req.m EXCEPT
                             !.currentModel = mergeModels(parsed.value, @),
                             !.parentPath = IF parsed.value.parent = "undefined"
                                            THEN "" ELSE parsed.value.parent,
                             !.depth = @ + 1]
                 h == loopHead([req EXCEPT !.m = merged], strings, models,
                               order, packs)
             IN  [req |-> h.req, states |-> states, models |-> h.models]

\* The requests made together, and the archives they are made against.
RaceCalls ==
    { Request("getResourceString", ModelFile("block/m1")),
      Request("getBlockState", "minecraft:stone"),
      Request("getModel", "block/m1") }
RaceArchives ==
    { << PackA >>, << PackB, PackA >>,
      << ChainZip(3, "end", {3}, {1}) >>,
      << ChainZip(2, "number", {2}, {}) >>,
      << ChainZip(1, "garbage", {}, {1}) >> }

InFlight(requests) ==
    [fn |-> "concurrent", requests |-> requests]
Results(requests) ==
    [fn |-> "concurrent", results |-> [i \in DOMAIN requests |-> requests[i].result]]

\* The archives are loaded, the caches are empty, the requests are made.
InitRace ==
    /\ \E archives \in RaceArchives :
          /\ loaded = archives
          /\ resourcePackOrder = [i \in DOMAIN archives |-> Len(archives) - i]
          /\ resourcePacks = [id \in 0..(Len(archives) - 1) |->
                                archives[Len(archives) - id]]
    /\ now = 0
    /\ stringCache = EmptyMap
    /\ blockStateCache = EmptyMap
    /\ modelCache = EmptyMap
    /\ textureCache = EmptyMap
    /\ materialCache = EmptyMap
    /\ blockMeshCache = EmptyMap
    /\ entityMeshCache = EmptyMap
    /\ packCache = EmptyMap
    /\ merge = Idle
    /\ modelResolver = "types"
    /\ \E requests \in [1..MaxRequests -> RaceCalls] :
          call = InFlight(requests) /\ ret = Results(requests)

RaceUnchanged ==
    UNCHANGED << loaderVars, textureCache, materialCache, blockMeshCache,
                 entityMeshCache, merge >>

\* Request i runs from its call to its first await.
RequestBegin(i) ==
    /\ call.requests[i].pc = "start"
    /\ \E req \in { beginRequest(call.requests[i], stringCache, blockStateCache,
                                 modelCache, resourcePackOrder, resourcePacks) } :
          /\ call' = InFlight([call.requests EXCEPT ![i] = req])
          /\ ret' = Results([call.requests EXCEPT ![i] = req])
    /\ UNCHANGED << stringCache, blockStateCache, modelCache >>
    /\ RaceUnchanged

\* The read request i waits for completes.
RequestRead(i) ==
    /\ call.requests[i].pc = "read"
    /\ stringCache' = Put(stringCache, call.requests[i].file, call.requests[i].text)
    /\ \E req \in { noteRace(readDone(call.requests[i]),
                             Has(stringCache, call.requests[i].file)) } :
          /\ call' = InFlight([call.requests EXCEPT ![i] = req])
          /\ ret' = Results([call.requests EXCEPT ![i] = req])
    /\ UNCHANGED << blockStateCache, modelCache >>
    /\ RaceUnchanged

\* Request i goes on after getResourceString returned to it.
RequestResume(i) ==
    /\ call.requests[i].pc = "got"
    /\ \E r \in { resumeRequest(call.requests[i], stringCache, blockStateCache,
                                modelCache, resourcePackOrder, resourcePacks) } :
          /\ \E req \in { noteRace(r.req,
                   r.req.pc = "done" /\
                   IF r.req.fn = "getModel"
                   THEN Has(modelCache, stripMinecraft(r.req.key))
                   ELSE Has(blockStateCache, stripMinecraft(r.req.key))) } :
                /\ call' = InFlight([call.requests EXCEPT ![i] = req])
                /\ ret' = Results([call.requests EXCEPT ![i] = req])
          /\ blockStateCache' = r.states
          /\ modelCache' = r.models
    /\ UNCHANGED stringCache
    /\ RaceUnchanged

NextRace ==
    \E i \in 1..MaxRequests :
        \/ RequestBegin(i)
        \/ RequestRead(i)
        \/ RequestResume(i)

SpecRace == InitRace /\ [][NextRace]_vars

-----------------------------------------------------------------------------
(* Properties of the resolvers.                                            *)

Resolved == call.fn = "resolveBlockModel"

\* A value that holds a model: a holder, or an array with a first element.
WellFormedValue(v) == v.kind = "holder" \/ v.items # << >>
WellFormedParts(ps) ==
    \A i \in DOMAIN ps : ps[i].when.kind # "string" /\ WellFormedValue(ps[i].apply)

\* The model reference a well-formed value stands for.
ReferenceOf(v) ==
    LET h == IF v.kind = "holder" THEN v.holder ELSE v.items[1]
    IN  [model |-> h.model, x |-> h.x, y |-> h.y, uvlock |-> h.uvlock]

\* The text of blockstates/stone.json in the archive of the resolver runs.
StoneText == IF Has(resourcePacks[0], StoneFile) THEN resourcePacks[0][StoneFile]
             ELSE NoFile

\* C3: resolveBlockModel never raises: whatever the archive holds, it ends
\* with a list of model references (the default cube, or the models).
C3_NeverRaises == Resolved => ret.status = "ok"

\* Two property lists that are the same map, written in any order.
SameMap(p, q) ==
    /\ Len(p) = Len(q)
    /\ { p[i] : i \in DOMAIN p } = { q[i] : i \in DOMAIN q }

Resolve(resolver, block, def) ==
    IF resolver = "types" THEN resolveBlockModelTypes(block, def)
    ELSE resolveBlockModel(block, def)

\* C4: property order is insignificant: an identifier with the same
\* namespace, name and property map as the resolved one, its properties
\* listed in another order, resolves to the same list of model references.
C4_OrderInsignificant ==
    Resolved =>
        \A other \in Blocks :
            SameMap(other.properties, call.block.properties)
                => Resolve(call.resolver, other, call.def) = ret

\* The names that occur in the keys of a `variants` object, and the block's
\* properties of those names as a canonical key.
NamesInKeys(variants) ==
    { n \in PropNames :
        \E i \in DOMAIN variants : \E j \in DOMAIN variants[i].key :
            variants[i].key[j][1] = n }
RelevantKey(block, variants) ==
    LET Relevant(p) == p[1] \in NamesInKeys(variants)
    IN  SortPairs(SelectSeq(block.properties, Relevant))

\* C8: only the properties named in some variant key take part in matching:
\* a block whose relevant properties equal a variant key resolves to that
\* variant whatever else it carries, and a definition whose only key is ""
\* resolves to that one entry for every block.
C8_ExtraPropertiesIgnored ==
    (Resolved /\ call.def.hasVariants) =>
        \A i \in DOMAIN call.def.variants :
            LET entry == call.def.variants[i]
            IN  ( /\ WellFormedValue(entry.value)
                  /\ \/ entry.key = RelevantKey(call.block, call.def.variants)
                     \/ (Len(call.def.variants) = 1 /\ entry.key = << >>) )
                => ret = Ok(<< ReferenceOf(entry.value) >>)

\* Whether a `when` holds of a block: absent always; {OR: [...]} if some
\* sub-condition does; a map if every listed property is on the block with
\* one of the value's alternatives.
ConditionHolds(block, cs) ==
    \A i \in DOMAIN cs :
        \E j \in DOMAIN block.properties :
            /\ block.properties[j][1] = cs[i][1]
            /\ block.properties[j][2] \in { cs[i][2][a] : a \in DOMAIN cs[i][2] }
WhenHolds(block, when) ==
    \/ when.kind = "absent"
    \/ when.kind = "OR" /\ \E k \in DOMAIN when.subs : ConditionHolds(block, when.subs[k])
    \/ when.kind = "map" /\ ConditionHolds(block, when.conds)

\* The references of the entries whose `when` holds, in entry order.
RECURSIVE HoldingParts(_, _)
HoldingParts(block, ps) ==
    IF ps = << >> THEN << >>
    ELSE (IF WhenHolds(block, ps[1].when) THEN << ReferenceOf(ps[1].apply) >>
          ELSE << >>) \o HoldingParts(block, Tail(ps))

MultipartResolved ==
    /\ Resolved
    /\ call.def.hasMultipart
    /\ ~call.def.hasVariants
    /\ WellFormedParts(call.def.multipart)

\* C9: in the multipart path the result is, in entry order, one reference
\* for every entry whose `when` holds and for no other entry.
\* (Stated for entries whose `when` is an object and whose `apply` holds a
\* model.)
C9_HoldingParts ==
    MultipartResolved => ret = Ok(HoldingParts(call.block, call.def.multipart))

-----------------------------------------------------------------------------
(* Properties of resolveTexture.                                           *)

\* The literal a reference leads to in at most `fuel` dereferences through
\* the textures map, if it leads to one.
RECURSIVE Reached(_, _, _)
Reached(ref, textures, fuel) ==
    IF ~startsWithHash(ref) THEN [ok |-> TRUE, literal |-> ref]
    ELSE IF fuel = 0 \/ ~textures.def \/ ~Has(textures.map, ref.name)
        THEN [ok |-> FALSE, literal |-> ref]
    ELSE Reached(textures.map[ref.name], textures, fuel - 1)

\* C5: a "#name" reference that reaches a literal within at most 5
\* dereferences resolves to that literal, and a literal input to itself,
\* both without the "minecraft:" prefix.
\* (Stated for non-empty strings and for references other than "#missing".)
C5_ResolvesWithinFive ==
    (call.fn = "resolveTexture" /\ call.textureRef \notin {Lit(""), Ref("missing")}) =>
        LET r == Reached(call.textureRef, call.model.textures, TEXTURE_MAX_DEPTH)
        IN  (r.ok /\ r.literal # Lit("")) => ret = [r.literal EXCEPT !.ns = FALSE]

-----------------------------------------------------------------------------
(* Properties of getModel.                                                 *)

\* The models from path up its parents in an archive: ok when every file of
\* the chain is there and parses and the last model names no parent, all
\* within fuel parents.
RECURSIVE ChainOf(_, _, _)
ChainOf(zip, path, fuel) ==
    IF path = NotAString \/ ~Has(zip, ModelFile(stripMinecraft(path)))
    THEN [ok |-> FALSE, models |-> << >>]
    ELSE LET text == zip[ModelFile(stripMinecraft(path))]
         IN  IF text = Garbage THEN [ok |-> FALSE, models |-> << >>]
             ELSE IF text.value.parent = "undefined"
             THEN [ok |-> TRUE, models |-> << text.value >>]
             ELSE IF fuel = 0 THEN [ok |-> FALSE, models |-> << >>]
             ELSE LET rest == ChainOf(zip, text.value.parent, fuel - 1)
                  IN  [ok |-> rest.ok, models |-> << text.value >> \o rest.models]

\* The field of the model nearest the child that defines it.
Nearest(models, field) ==
    IF \E i \in DOMAIN models : models[i][field] # "undefined"
    THEN models[CHOOSE i \in DOMAIN models :
                    /\ models[i][field] # "undefined"
                    /\ \A j \in 1..(i - 1) : models[j][field] = "undefined"][field]
    ELSE "undefined"

\* The union of the texture maps, the entry nearest the child winning.
UnionOfTextures(models) ==
    LET Defines(i, k) == Has(models[i].textures.map, k)
        Keys == UNION { DOMAIN models[i].textures.map : i \in DOMAIN models }
    IN  [k \in Keys |->
            models[CHOOSE i \in DOMAIN models :
                       Defines(i, k) /\ \A j \in 1..(i - 1) : ~Defines(j, k)].textures.map[k]]

TheChain == ChainOf(resourcePacks[0], call.modelPath, MAX_DEPTH)

\* C6: for a model whose parent chain has at most 5 parents, getModel
\* returns the merge of the chain: the elements of the nearest model that
\* defines elements, the union of the texture maps with the entry nearer the
\* child winning, the child-most definition of every other field, and no
\* parent field.
C6_MergedModel ==
    (call.fn = "getModel" /\ TheChain.ok) =>
        /\ ret.elements = Nearest(TheChain.models, "elements")
        /\ ret.textures.map = UnionOfTextures(TheChain.models)
        /\ ret.display = Nearest(TheChain.models, "display")
        /\ ret.parent = "undefined"

\* A(parent=B), B(parent=C), C(no parent, elements=E) has merged to
\* elements=E, and a texture key of A and C has A's value.
C6_Witness ==
    /\ call.fn = "getModel"
    /\ TheChain.ok
    /\ Len(TheChain.models) = 3
    /\ TheChain.models[1].elements = "undefined"
    /\ TheChain.models[2].elements = "undefined"
    /\ TheChain.models[3].elements = "elements3"
    /\ TheChain.models[1].textures.def
    /\ TheChain.models[3].textures.def
    /\ ret.elements = "elements3"
    /\ ret.textures.map["all"] = Lit("block/texture1")

\* C7: getModel terminates on every archive content: it loads at most 5
\* parent models, stops, and returns a model without raising.
C7_Terminates ==
    /\ [](merge.loads <= MAX_DEPTH)
    /\ [](call.fn = "getModel" =>
            /\ call.loads <= MAX_DEPTH
            /\ DOMAIN ret = DOMAIN EmptyModel
            /\ ret.parent = "undefined")
    /\ (merge.pc # "idle") ~> (merge.pc = "idle" /\ call.fn = "getModel")

\* getModel has returned from a chain that never ends, after 5 parents.
C7_Witness ==
    /\ call.fn = "getModel"
    /\ ~TheChain.ok
    /\ \E i \in 1..(MaxParents + 1) :
          /\ Has(resourcePacks[0], ModelFile(MPath(i)))
          /\ resourcePacks[0][ModelFile(MPath(i))].value.parent \in {MPath(1), MPath(i)}
    /\ call.loads = MAX_DEPTH
    /\ ret.parent = "undefined"

-----------------------------------------------------------------------------
(* Properties of loads, dispose and the caches.                            *)

\* The content of the archive loaded last among those that hold the file.
RECURSIVE FrontMostHit(_, _)
FrontMostHit(zips, file) ==
    IF zips = << >> THEN NoFile
    ELSE IF Has(Head(zips), file) THEN Head(zips)[file]
    ELSE FrontMostHit(Tail(zips), file)

\* No two packs of the priority list were loaded in the same millisecond.
DistinctPackIds == Cardinality(DOMAIN resourcePacks) = Len(resourcePackOrder)

\* C1: after any successful loads interleaved with lookups, getText(path)
\* returns the content of the most recently loaded archive that contains
\* path, whether or not path was looked up before the latest load.
\* (Stated for loads in distinct milliseconds.)
C1_FrontMostHit ==
    (call.fn = "getResourceString" /\ DistinctPackIds) =>
        ret = FrontMostHit(loaded, call.file)

\* C2: immediately after load() or dispose() completes, the raw-text,
\* block-state, merged-model, texture, material and mesh caches hold no
\* entry.
C2_CachesCleared ==
    (call.fn \in {"loadResourcePack", "dispose"} /\ ret = [status |-> "ok"]) =>
        /\ stringCache = EmptyMap
        /\ blockStateCache = EmptyMap
        /\ modelCache = EmptyMap
        /\ textureCache = EmptyMap
        /\ materialCache = EmptyMap
        /\ blockMeshCache = EmptyMap
        /\ entityMeshCache = EmptyMap


\* C11: getModel of "block/water_level_N" and of "block/lava_level_N"
\* returns exactly one element, from [0,0,0] to [16,h,16], with h = 14 for
\* water at level 0, h = 16 for lava at level 0 and h = 16 - 2N otherwise,
\* whatever model files the archives hold: an archive's model of the same
\* or of the base name gives textures only, never elements.
ClaimedHeight(kind, n) ==
    IF n = 0 THEN (IF kind = "water" THEN 14 ELSE 16) ELSE 16 - 2 * n
C11_LiquidHeight ==
    \A kind \in Liquids, n \in 0..MaxLevel :
        (call.fn = "getModel" /\ call.modelPath = LiquidLevel(kind, n)) =>
            ret.elements = Cuboid(ClaimedHeight(kind, n))

\* Water at level 4 is 8 high although the archive's model of that name
\* defines elements; the archive's textures are taken.
C11_Witness ==
    /\ call.fn = "getModel"
    /\ call.modelPath = LiquidLevel("water", 4)
    /\ Has(loaded[1], ModelFile(LiquidLevel("water", 4)))
    /\ JSONparse(loaded[1][ModelFile(LiquidLevel("water", 4))]).status = "ok"
    /\ ret.elements = Cuboid(8)
    /\ ret.textures.map["all"] = Lit("block/custom_level")
    /\ ret.textures.map["north"] = Lit("block/water_flow")


\* C12: parse of [namespace:]name['[' k=v (',' k=v)* ']'] returns the
\* written namespace, or "minecraft" when none is written, the name without
\* the bracket part, and the map of the trimmed keys and values; so does an
\* identifier without namespace but with properties.
C12_Parse ==
    \A ns \in Namespaces, name \in BlockNames, ps \in PropLists, blanks \in BOOLEAN :
        (call.fn = "parseBlockString"
         /\ call.blockString = Write(ns, name, ps, blanks)) =>
            /\ ret.namespace = (IF ns = "" THEN "minecraft" ELSE ns)
            /\ ret.name = name
            /\ Len(ret.properties) = Len(ps)
            /\ { ret.properties[i] : i \in DOMAIN ret.properties } =
               { ps[i] : i \in DOMAIN ps }


\* C13: only archive loading rejects, and a load that rejects leaves the
\* priority list, the archives and every cache as they were before it.
LoadRejected == call.fn = "loadResourcePack" /\ ret = [status |-> "raise"]
IsPlaceholder(object) ==
    \/ object.kind = "placeholder"
    \/ object.kind = "waterlogged" /\ object.children[1].kind = "placeholder"
Marked(mesh) ==
    \/ mesh.fallback
    \/ mesh.parts # << >> /\ \A i \in DOMAIN mesh.parts : IsPlaceholder(mesh.parts[i].object)
KindsOfStone ==
    CHOOSE kinds \in SeqsUpTo(ElementKinds, MaxElements) :
        loaded[1][ModelFile("block/m1")].value.elements = Elements(kinds)
MainObject(mesh) ==
    IF mesh.parts[1].object.kind = "waterlogged"
    THEN mesh.parts[1].object.children[1]
    ELSE mesh.parts[1].object
C15_ElementsResilient ==
    call.fn = "getBlockMesh" =>
        /\ ~ret.fallback
        /\ Len(ret.parts) = 1
        /\ \A i \in DOMAIN KindsOfStone :
              KindsOfStone[i] = "whole" =>
                 \A d \in {"up", "north"} :
                    \E k \in DOMAIN MainObject(ret).faces :
                       /\ MainObject(ret).faces[k].element = i
                       /\ MainObject(ret).faces[k].direction = d
        /\ (\A i \in DOMAIN KindsOfStone : KindsOfStone[i] # "whole") =>
              MainObject(ret) = createPlaceholderCube

\* The first element is null, the second has a face whose texture is a
\* number, the third is whole: its faces are in the mesh.
C15_Witness ==
    /\ call.fn = "getBlockMesh"
    /\ KindsOfStone = << "null", "numberface", "whole" >>
    /\ MainObject(ret).kind = "group"
    /\ Len(MainObject(ret).faces) = 2


\* C16: the UV rotation is a cyclic group of order 4 on the four corners:
\* rotating by a and then by b is rotating by (a + b) mod 360, and four
\* rotations by 90 give the corners back, from any base rotation.
RECURSIVE SumOf(_)
SumOf(rotations) ==
    IF rotations = << >> THEN 0 ELSE rotations[1] + SumOf(Tail(rotations))
RotatedOnce(builder, uvCoords, rotation) ==
    IF builder = "first" THEN applyUVRotationFirst(uvCoords, rotation)
    ELSE applyUVRotation(uvCoords, rotation)
C16_CyclicGroup ==
    call.fn = "applyUVRotation" =>
        /\ ret.uvCoords = RotatedOnce(call.builder, call.base, SumOf(call.rotations) % 360)
        /\ call.rotations = << 90, 90, 90, 90 >> => ret.uvCoords = call.base

\* 90 and then 180 on corners that differ, which moves them.
C16_Witness ==
    /\ call.fn = "applyUVRotation"
    /\ call.rotations = << 90, 180 >>
    /\ ret.uvCoords # call.base
    /\ ret.uvCoords = RotatedOnce(call.builder, call.base, 270)
    /\ ret.uvCoords # RotatedOnce(call.builder, call.base, 90)


\* C17: in the variants path the result is the first that exists of: the
\* variant at the exact candidate key, the variant at "", a variant keyed by
\* one k=v pair of the block, the first variant of the map; so the exact
\* key wins over "" when both are present.
ClaimedVariants(block, variants) ==
    LET key == RelevantKey(block, variants)
        singles == { i \in DOMAIN variants :
                       \E j \in DOMAIN block.properties :
                          variants[i].key = << block.properties[j] >> }
    IN  IF HasVariant(variants, key) THEN { VariantAt(variants, key) }
        ELSE IF HasVariant(variants, << >>) THEN { VariantAt(variants, << >>) }
        ELSE IF singles # {} THEN { variants[i].value : i \in singles }
        ELSE { variants[1].value }
C17_LookupOrder ==
    ( /\ Resolved
      /\ call.def.hasVariants
      /\ ~call.def.hasMultipart
      /\ call.def.variants # << >>
      /\ \A i \in DOMAIN call.def.variants : WellFormedValue(call.def.variants[i].value) )
    => \E v \in ClaimedVariants(call.block, call.def.variants) :
          ret = Ok(<< ReferenceOf(v) >>)


\* C18: among weighted candidates the first is taken: a matched value or a
\* part's `apply` that is a non-empty array gives its element at index 0,
\* with that element's x, y and uvlock, whatever the weights are; resolving
\* again gives the same list.
ValuesIn(def) ==
    { def.variants[i].value : i \in DOMAIN def.variants } \cup
    { def.multipart[i].apply : i \in DOMAIN def.multipart }
OtherWeights(v) ==
    [v EXCEPT !.items = [i \in DOMAIN v.items |->
                           [v.items[i] EXCEPT !.weight = IF @ = "1" THEN "3" ELSE "1"]]]
Reweighed(def) ==
    [def EXCEPT
       !.variants = [i \in DOMAIN def.variants |->
                       [def.variants[i] EXCEPT !.value = OtherWeights(@)]],
       !.multipart = [i \in DOMAIN def.multipart |->
                        [def.multipart[i] EXCEPT !.apply = OtherWeights(@)]]]
C18_FirstCandidate ==
    (Resolved /\ ret.status = "ok") =>
        /\ \A k \in DOMAIN ret.models :
              \/ ret.models[k] = DefaultCube
              \/ \E v \in ValuesIn(call.def) :
                    WellFormedValue(v) /\ ret.models[k] = ReferenceOf(v)
        /\ Resolve(call.resolver, call.block, Reweighed(call.def)) = ret
        /\ Resolve(call.resolver, call.block, call.def) = ret

\* An array of two candidates, the second the heavier, is matched: the
\* first one's model and rotation are the result.
C18_Witness ==
    /\ Resolved
    /\ ret = Ok(<< [model |-> EntryModel(1), x |-> "0", y |-> "90", uvlock |-> "true"] >>)
    /\ \E v \in ValuesIn(call.def) :
          Len(v.items) = 2 /\ v.items[1].weight = "1" /\ v.items[2].weight = "3"


\* C19: a "#" reference whose chain is cyclic, dangling or longer than the
\* cap is given up after at most 5 dereferences and resolves to
\* "block/missing_texture"; no "#" reference resolves to a string that
\* starts with "#".
C19_SentinelNeverHash ==
    (call.fn = "resolveTexture" /\ startsWithHash(call.textureRef)) =>
        /\ derefLoop(call.textureRef, call.model, 0).depth <= TEXTURE_MAX_DEPTH
        /\ ~Reached(call.textureRef, call.model.textures, TEXTURE_MAX_DEPTH).ok
              => ret = MissingTexture
        /\ ~startsWithHash(ret)

\* What one request returns and the caches it leaves when it runs to its
\* end with no other request in flight.
RunAlone(req, c) ==
    CASE req.fn = "getResourceString" ->
           Only({ [result |-> r.text, strings |-> r.cache, states |-> c.states,
                   models |-> c.models] :
                  r \in { getResourceString(c.strings, resourcePackOrder,
                                            resourcePacks, req.key) } })
      [] req.fn = "getBlockState" ->
           Only({ [result |-> r.def, strings |-> r.strings, states |-> r.states,
                   models |-> c.models] :
                  r \in { getBlockStateIn(req.key, c.strings, c.states,
                                          resourcePackOrder, resourcePacks) } })
      [] OTHER ->
           Only({ [result |-> r.model, strings |-> r.strings, states |-> c.states,
                   models |-> r.models] :
                  r \in { getModel(req.key, c.strings, c.models,
                                   resourcePackOrder, resourcePacks) } })

\* The requests run one after the other, from caches c: the results and
\* the caches left.
RECURSIVE Sequential(_, _, _)
Sequential(requests, results, c) ==
    IF requests = << >> THEN [results |-> results, c |-> c]
    ELSE Only({ Sequential(Tail(requests), Append(results, r.result),
                           [strings |-> r.strings, states |-> r.states,
                            models |-> r.models]) :
                r \in { RunAlone(requests[1], c) } })

EmptyCaches == [strings |-> EmptyMap, states |-> EmptyMap, models |-> EmptyMap]
SequentialRun == Sequential(call.requests, << >>, EmptyCaches)

Within(cache, final) ==
    \A k \in DOMAIN cache : Has(final, k) /\ cache[k] = final[k]

\* C20: with the archives fixed, under every interleaving of requests in
\* flight together, a request that has returned has returned the value the
\* sequential run returns for it, no cache ever holds an entry the
\* sequential run does not leave, and when all have returned the caches are
\* the caches the sequential run leaves.
C20_IdempotentCaches ==
    call.fn = "concurrent" =>
        \A seq \in { SequentialRun } :
            /\ \A i \in DOMAIN call.requests :
                  call.requests[i].pc = "done" =>
                      call.requests[i].result = seq.results[i]
            /\ Within(stringCache, seq.c.strings)
            /\ Within(blockStateCache, seq.c.states)
            /\ Within(modelCache, seq.c.models)
            /\ (\A i \in DOMAIN call.requests : call.requests[i].pc = "done") =>
                  /\ stringCache = seq.c.strings
                  /\ blockStateCache = seq.c.states
                  /\ modelCache = seq.c.models

\* Two getModel requests for one key have returned, the second having
\* merged the model again after the first had cached it.
C20_Witness ==
    /\ call.fn = "concurrent"
    /\ \A i \in DOMAIN call.requests : call.requests[i].pc = "done"
    /\ \E i, j \in DOMAIN call.requests :
          /\ i # j
          /\ call.requests[i].fn = "getModel"
          /\ call.requests[j].fn = "getModel"
          /\ call.requests[i].key = call.requests[j].key
          /\ call.requests[j].raced
          /\ call.requests[j].phase = "loop"
          /\ call.requests[i].result = call.requests[j].result
          /\ Has(modelCache, stripMinecraft(call.requests[j].key))
          /\ modelCache[stripMinecraft(call.requests[j].key)] = call.requests[j].result

\* What getModel returns for a path before any mesh is built.
ModelBefore(path) ==
    getModel(path, EmptyMap, EmptyMap, resourcePackOrder, resourcePacks).model

\* C21: building a mesh mutates nothing in place: every model the cache
\* holds is the model getModel returned before the build, and getModel
\* after a build returns a value equal to it.
C21_NothingMutated ==
    /\ \A path \in DOMAIN modelCache : modelCache[path] = ModelBefore(path)
    /\ call.fn = "getModel" => ret = ModelBefore(call.modelPath)

\* The faces of a built part that are faces of a liquid: all faces of the
\* part of water and of lava, the faces of the cube of water around a block.
LiquidFacesOf(object, block) ==
    IF isWaterBlock(block) \/ isLavaBlock(block)
    THEN { object.faces[k] : k \in DOMAIN object.faces }
    ELSE IF object.kind = "waterlogged"
    THEN { object.children[2].faces[k] : k \in DOMAIN object.children[2].faces }
    ELSE {}
ClaimedTexture(block, direction) ==
    Texture(loaded[1][TextureFile(
        "block/" \o (IF isLavaBlock(block) THEN "lava" ELSE "water")
                 \o (IF direction \in {"up", "down"} THEN "_still" ELSE "_flow"))])

\* C22: the material of every face of a liquid is made of the still texture
\* on the up and down faces and of the flowing texture on the four sides,
\* whatever texture the face names in the model.
C22_LiquidTextures ==
    (call.fn = "getBlockMesh" /\ ~ret.fallback) =>
        \A i \in DOMAIN ret.parts :
            \A face \in LiquidFacesOf(ret.parts[i].object, call.block) :
                face.material.map = ClaimedTexture(call.block, face.direction)

\* Lava whose model file names the textures of water on its six faces has
\* been built: the down face is made of lava_still.
C22_Witness ==
    /\ call.fn = "getBlockMesh"
    /\ isLavaBlock(call.block)
    /\ Has(loaded[1], ModelFile("block/lava"))
    /\ loaded[1][ModelFile("block/lava")].value.elements = Elements(<< "water" >>)
    /\ ~ret.fallback
    /\ \E k \in DOMAIN ret.parts[1].object.faces :
          /\ ret.parts[1].object.faces[k].direction = "down"
          /\ ret.parts[1].object.faces[k].material.map = Texture(Png("lava still"))

\* C23: the corners of a face are its uv rectangle rotated by the face's
\* rotation plus the base rotation of its direction, modulo 360.
ClaimedCorners(builder, direction, uv, rotation) ==
    RotatedOnce(builder, IF builder = "first" THEN getBaseUVs(uv) ELSE baseUVs(uv),
                (rotation + FACING_UV_ROT) % 360)
C23_ComposedRotation ==
    call.fn = "mapUVCoordinates" =>
        ret.uvCoords = ClaimedCorners(call.builder, call.direction, call.uv,
                                      call.rotation)

\* The objects of a built part whose faces are batched: the group of the
\* part, and the two groups of a block under water.
Batched(object) ==
    IF object.kind = "waterlogged"
    THEN { object.children[1], object.children[2] }
    ELSE { object }
FacesOfKey(object, key) ==
    LET keyed(face) == face.materialKey = key IN SelectSeq(object.faces, keyed)
VertexOf(mesh, index) == mesh.geometry.position[index + 1]

\* C24: the built object has exactly one mesh for each material key among
\* its faces; the mesh of a key holds the four vertices and six indices of
\* each face of the key and of no other face; each index refers to a vertex
\* of the face the index came from.
C24_BatchedByKey ==
    (call.fn = "getBlockMesh" /\ ~ret.fallback) =>
        \A i \in DOMAIN ret.parts : \A object \in Batched(ret.parts[i].object) :
            /\ { object.meshes[m].materialKey : m \in DOMAIN object.meshes }
                 = { object.faces[k].materialKey : k \in DOMAIN object.faces }
            /\ \A m, n \in DOMAIN object.meshes :
                  object.meshes[m].materialKey = object.meshes[n].materialKey => m = n
            /\ \A m \in DOMAIN object.meshes :
                  \A faces \in { FacesOfKey(object, object.meshes[m].materialKey) } :
                      /\ Len(object.meshes[m].geometry.position) = 4 * Len(faces)
                      /\ Len(object.meshes[m].geometry.index) = 6 * Len(faces)
                      /\ \A v \in DOMAIN object.meshes[m].geometry.position :
                            object.meshes[m].geometry.position[v] =
                                << faces[((v - 1) \div 4) + 1].element,
                                   faces[((v - 1) \div 4) + 1].direction,
                                   ((v - 1) % 4) + 1 >>
                      /\ \A p \in DOMAIN object.meshes[m].geometry.index :
                            /\ VertexOf(object.meshes[m],
                                        object.meshes[m].geometry.index[p])[1]
                                 = faces[((p - 1) \div 6) + 1].element
                            /\ VertexOf(object.meshes[m],
                                        object.meshes[m].geometry.index[p])[2]
                                 = faces[((p - 1) \div 6) + 1].direction
                            /\ object.meshes[m].geometry.index[p] =
                                 PlaneGeometry(0, "").index[((p - 1) % 6) + 1]
                                   + 4 * ((p - 1) \div 6)

\* Stone of two elements with an up and a north face each has been built:
\* four faces in two meshes of eight vertices.
C24_Witness ==
    /\ call.fn = "getBlockMesh"
    /\ ~ret.fallback
    /\ \E object \in Batched(ret.parts[1].object) :
          /\ Len(object.faces) = 4
          /\ Len(object.meshes) = 2
          /\ Len(object.meshes[1].geometry.position) = 8
          /\ object.meshes[1].geometry.index[12] = 5

C26_NoArchiveLost ==
    /\ Cardinality(DOMAIN resourcePacks) = Len(loaded)
    /\ \A i \in DOMAIN loaded : \A file \in DOMAIN loaded[i] :
          ~isNoFile(getResourceString(stringCache, resourcePackOrder,
                                      resourcePacks, file).text)

\* The mesh of a block as the archives now loaded give it.
FreshMesh(block) ==
    blockMeshOf(block, modelResolver,
                Caches(EmptyMap, EmptyMap, EmptyMap, EmptyMap, EmptyMap),
                resourcePackOrder, resourcePacks).mesh

\* C27: once a pack is loaded and no getBlockMesh is in flight, every mesh
\* in blockMeshCache is the mesh the archives now loaded give, never one
\* computed from the archives as they were before the load.
C27_NoStaleMesh ==
    (merge.pc = "idle" /\ loaded # << >>) =>
        \A block \in DOMAIN blockMeshCache :
            blockMeshCache[block] = FreshMesh(block)

\* C28: when loadResourcePack(options, loader) rejects because the bytes
\* the loader gave are not a readable archive, the cache of packs holds no
\* entry with those bytes under that packId.
C28_FailedNotPersisted ==
    (/\ call.fn = "loadResourcePack:options"
     /\ ret.status = "raise"
     /\ ~ret.fromCache
     /\ call.loader.given) =>
        ~(Has(packCache, call.packId) /\ ~packCache[call.packId].blob.readable)

\* C29: the element getModel synthesizes for a liquid lies inside the cube
\* of 16 units: for every level N written in the path, the top of the
\* element is at a height from 0 to 16.
C29_InsideCube ==
    \A kind \in Liquids, n \in 0..MaxLevel :
        (call.fn = "getModel" /\ call.modelPath = LiquidLevel(kind, n)) =>
            \E h \in 0..16 : ret.elements = Cuboid(h)

\* C30: a lookup that found nothing is not cached: when getResourceString,
\* getBlockState or getModel of an ordinary path has returned nothing for a
\* key and an archive with a well-formed file of that key is loaded then,
\* the next lookup of the key returns what that archive's file holds.
FoundText ==
    (Len(loaded) >= 2 /\ call.fn = "getResourceString") =>
        ret = loaded[1][call.file]
FoundState ==
    (Len(loaded) >= 2 /\ call.fn = "getBlockState") =>
        ret = JSONparse(loaded[1][StoneFile]).value
FoundModel ==
    (Len(loaded) >= 2 /\ call.fn = "getModel") =>
        ret = JSONparse(loaded[1][ModelFile(call.modelPath)]).value
C30_MissNotCached == FoundText /\ FoundState /\ FoundModel

=============================================================================
